---- MODULE Spec2Model ----
(***************************************************************************)
(* A model of the clox single-pass compiler (src/clox/compiler.c) and of   *)
(* the string objects of src/clox/object.c.                                *)
(*                                                                         *)
(* Every C function of compiler.c is one operator of the same name.  An    *)
(* operator takes the global state of the compiler as a record s           *)
(*   s.scanner   the token source and the number of tokens handed out      *)
(*   s.parser    Parser parser      (compiler.c:95)                        *)
(*   s.compilers the chain current -> enclosing -> ... ; the LAST element  *)
(*               is `current`, the one before it is current->enclosing     *)
(*   s.vm        the part of VM vm that object.c touches                   *)
(*   s.log       history of what the compiler did (ghost, never read by    *)
(*               the modelled code)                                        *)
(* and returns the state after the call; a C function that also returns a  *)
(* value returns the record [st |-> state, ret |-> value].                 *)
(***************************************************************************)
EXTENDS Integers, Sequences, FiniteSets, TLC

VARIABLES source, phase, scanner, parser, current, vm, result, log, calls

vars == <<source, phase, scanner, parser, current, vm, result, log, calls>>

(* ----------------------------- chunk.h --------------------------------- *)
OP_CONSTANT == 0
OP_NIL == 1
OP_TRUE == 2
OP_FALSE == 3
OP_POP == 4
OP_GET_LOCAL == 5
OP_GET_GLOBAL == 6
OP_DEFINE_GLOBAL == 7
OP_SET_LOCAL == 8
OP_SET_GLOBAL == 9
OP_GET_UPVALUE == 10
OP_SET_UPVALUE == 11
OP_GET_PROPERTY == 12
OP_SET_PROPERTY == 13
OP_EQUAL == 14
OP_GREATER == 15
OP_LESS == 16
OP_ADD == 17
OP_SUBTRACT == 18
OP_MULTIPLY == 19
OP_DIVIDE == 20
OP_NOT == 21
OP_NEGATE == 22
OP_PRINT == 23
OP_JUMP == 24
OP_JUMP_IF_FALSE == 25
OP_LOOP == 26
OP_CALL == 27
OP_INVOKE == 28
OP_CLOSURE == 29
OP_CLOSE_UPVALUE == 30
OP_RETURN == 31
OP_CLASS == 32
OP_METHOD == 33

(* --------------------------- limits ------------------------------------ *)
UINT8_MAX == 255
UINT8_COUNT == 256
UINT16_MAX == 65535

(* --------------------------- compiler.c:27 ----------------------------- *)
PREC_NONE == 0
PREC_ASSIGNMENT == 1
PREC_OR == 2
PREC_AND == 3
PREC_EQUALITY == 4
PREC_COMPARISON == 5
PREC_TERM == 6
PREC_FACTOR == 7
PREC_UNARY == 8
PREC_CALL == 9
PREC_PRIMARY == 10

(* ----------------------------- tokens ---------------------------------- *)
(* A Token is its type, the text start points at, and its length.  The     *)
(* start of a TOKEN_ERROR is the scanner's message (scanner.c:86).         *)
Token(type, text) == [type |-> type, start |-> text, length |-> Len(text)]

TokenEOF == Token("TOKEN_EOF", "")

ErrorToken == Token("TOKEN_ERROR", "Unexpected character.")

Lexemes ==
    [ TOKEN_LEFT_PAREN |-> "(", TOKEN_RIGHT_PAREN |-> ")",
      TOKEN_LEFT_BRACE |-> "{", TOKEN_RIGHT_BRACE |-> "}",
      TOKEN_COMMA |-> ",", TOKEN_DOT |-> ".", TOKEN_MINUS |-> "-",
      TOKEN_PLUS |-> "+", TOKEN_SEMICOLON |-> ";", TOKEN_SLASH |-> "/",
      TOKEN_STAR |-> "*", TOKEN_BANG |-> "!", TOKEN_BANG_EQUAL |-> "!=",
      TOKEN_EQUAL |-> "=", TOKEN_EQUAL_EQUAL |-> "==",
      TOKEN_GREATER |-> ">", TOKEN_GREATER_EQUAL |-> ">=",
      TOKEN_LESS |-> "<", TOKEN_LESS_EQUAL |-> "<=",
      TOKEN_AND |-> "and", TOKEN_CLASS |-> "class", TOKEN_ELSE |-> "else",
      TOKEN_FALSE |-> "false", TOKEN_FOR |-> "for", TOKEN_FUN |-> "fun",
      TOKEN_IF |-> "if", TOKEN_NIL |-> "nil", TOKEN_OR |-> "or",
      TOKEN_PRINT |-> "print", TOKEN_RETURN |-> "return",
      TOKEN_SUPER |-> "super", TOKEN_THIS |-> "this", TOKEN_TRUE |-> "true",
      TOKEN_VAR |-> "var", TOKEN_WHILE |-> "while" ]

(* the token of a punctuator or keyword *)
T(type) == Token(type, Lexemes[type])

Ident(name) == Token("TOKEN_IDENTIFIER", name)

Num(text) == Token("TOKEN_NUMBER", text)

Str(text) == Token("TOKEN_STRING", text)

(* --------------------------- compiler.c:964 ---------------------------- *)
Rule(prefix, infix, precedence) ==
    [prefix |-> prefix, infix |-> infix, precedence |-> precedence]

rules ==
    [ TOKEN_LEFT_PAREN    |-> Rule("grouping", "call",   PREC_CALL),
      TOKEN_RIGHT_PAREN   |-> Rule("NULL",     "NULL",   PREC_NONE),
      TOKEN_LEFT_BRACE    |-> Rule("NULL",     "NULL",   PREC_NONE),
      TOKEN_RIGHT_BRACE   |-> Rule("NULL",     "NULL",   PREC_NONE),
      TOKEN_COMMA         |-> Rule("NULL",     "NULL",   PREC_NONE),
      TOKEN_DOT           |-> Rule("NULL",     "NULL",   PREC_NONE),
      TOKEN_MINUS         |-> Rule("unary",    "binary", PREC_TERM),
      TOKEN_PLUS          |-> Rule("NULL",     "binary", PREC_TERM),
      TOKEN_SEMICOLON     |-> Rule("NULL",     "NULL",   PREC_NONE),
      TOKEN_SLASH         |-> Rule("NULL",     "binary", PREC_FACTOR),
      TOKEN_STAR          |-> Rule("NULL",     "binary", PREC_FACTOR),
      TOKEN_BANG          |-> Rule("unary",    "NULL",   PREC_NONE),
      TOKEN_BANG_EQUAL    |-> Rule("NULL",     "binary", PREC_EQUALITY),
      TOKEN_EQUAL         |-> Rule("NULL",     "NULL",   PREC_NONE),
      TOKEN_EQUAL_EQUAL   |-> Rule("NULL",     "binary", PREC_COMPARISON),
      TOKEN_GREATER       |-> Rule("NULL",     "binary", PREC_COMPARISON),
      TOKEN_GREATER_EQUAL |-> Rule("NULL",     "binary", PREC_COMPARISON),
      TOKEN_LESS          |-> Rule("NULL",     "binary", PREC_COMPARISON),
      TOKEN_LESS_EQUAL    |-> Rule("NULL",     "binary", PREC_COMPARISON),
      TOKEN_IDENTIFIER    |-> Rule("variable", "NULL",   PREC_NONE),
      TOKEN_STRING        |-> Rule("string",   "NULL",   PREC_NONE),
      TOKEN_NUMBER        |-> Rule("number",   "NULL",   PREC_NONE),
      TOKEN_AND           |-> Rule("NULL",     "and_",   PREC_AND),
      TOKEN_CLASS         |-> Rule("NULL",     "NULL",   PREC_NONE),
      TOKEN_ELSE          |-> Rule("NULL",     "NULL",   PREC_NONE),
      TOKEN_FALSE         |-> Rule("literal",  "NULL",   PREC_NONE),
      TOKEN_FOR           |-> Rule("NULL",     "NULL",   PREC_NONE),
      TOKEN_FUN           |-> Rule("NULL",     "NULL",   PREC_NONE),
      TOKEN_IF            |-> Rule("NULL",     "NULL",   PREC_NONE),
      TOKEN_NIL           |-> Rule("literal",  "NULL",   PREC_NONE),
      TOKEN_OR            |-> Rule("NULL",     "or_",    PREC_OR),
      TOKEN_PRINT         |-> Rule("NULL",     "NULL",   PREC_NONE),
      TOKEN_RETURN        |-> Rule("NULL",     "NULL",   PREC_NONE),
      TOKEN_SUPER         |-> Rule("NULL",     "NULL",   PREC_NONE),
      TOKEN_THIS          |-> Rule("NULL",     "NULL",   PREC_NONE),
      TOKEN_TRUE          |-> Rule("literal",  "NULL",   PREC_NONE),
      TOKEN_VAR           |-> Rule("NULL",     "NULL",   PREC_NONE),
      TOKEN_WHILE         |-> Rule("NULL",     "NULL",   PREC_NONE),
      TOKEN_ERROR         |-> Rule("NULL",     "NULL",   PREC_NONE),
      TOKEN_EOF           |-> Rule("NULL",     "NULL",   PREC_NONE) ]

(* getRule with a table that gives `.` the precedence of a call and no     *)
(* infix rule                                                              *)
getRule_DotWithoutInfix(type) ==
    IF type = "TOKEN_DOT" THEN Rule("NULL", "NULL", PREC_CALL) ELSE rules[type]

(* compiler.c:1030 *)
getRule(type) == rules[type]

(* `T x = value; rest` of a C block: value is computed first, then rest *)
(* goes on with it as x.                                                *)
Bind(value, rest(_)) == IF value = value THEN rest(value) ELSE rest(value)

(* ============================ object.c ================================= *)
(* VM vm (vm.h:21), as far as object.c uses it:                            *)
(*   heap     the objects allocated so far; an Obj* is an index into heap, *)
(*            NULL is 0                                                    *)
(*   objects  vm.objects, the head of the allocation list                  *)
(*   strings  vm.strings, the interning table                              *)
(*   stack    vm.stack[0 .. stackTop - stack - 1], the value stack         *)
(*   allocs, frees   ghost counters of reallocate() calls that allocate    *)
(*            a block / free a block                                       *)
(*   tableSets   ghost: for every call tableSet(&vm.strings, key, ...) the *)
(*            key and the value stack at the time of the call              *)
NULL == 0

initVM ==
    [heap |-> <<>>, objects |-> NULL, strings |-> <<>>, stack |-> <<>>,
     allocs |-> 0, frees |-> 0, tableSets |-> <<>>]

(* the printable characters in runs of consecutive codes: 32 to 91,      *)
(* 93 to 95 and 97 to 126                                                 *)
AsciiRuns ==
    << [first |-> 32, text |-> " !\"#$%&'()*+,-./0123456789:;<="
                                  \o ">?@ABCDEFGHIJKLMNOPQRSTUVWXYZ["],
       [first |-> 93, text |-> "]^_"],
       [first |-> 97, text |-> "abcdefghijklmnopqrstuvwxyz{|}~"] >>

(* (uint8_t)c of a character of a text *)
Ascii ==
    [c \in UNION {{SubSeq(AsciiRuns[r].text, i, i) : i \in 1..Len(AsciiRuns[r].text)} :
                     r \in 1..Len(AsciiRuns)} \cup {"\t", "\n", "\r"} |->
        CASE c = "\t" -> 9
          [] c = "\n" -> 10
          [] c = "\r" -> 13
          [] OTHER ->
                 LET r == CHOOSE r \in 1..Len(AsciiRuns) :
                              \E i \in 1..Len(AsciiRuns[r].text) :
                                  SubSeq(AsciiRuns[r].text, i, i) = c
                 IN  AsciiRuns[r].first - 1
                         + CHOOSE i \in 1..Len(AsciiRuns[r].text) :
                               SubSeq(AsciiRuns[r].text, i, i) = c]

(* a ^ b on uint8_t *)
RECURSIVE Xor8(_, _, _)
Xor8(a, b, bits) ==
    IF bits = 0 THEN 0
    ELSE ((a + b) % 2) + 2 * Xor8(a \div 2, b \div 2, bits - 1)

(* A uint32_t is kept as its two 16-bit halves, so that no intermediate    *)
(* product leaves the range of the checker's integers.                     *)
FNV_OFFSET == [hi |-> 33052, lo |-> 40389]          \* 2166136261u

FNV_PRIME_LOW == 403                                \* 16777619 = 2^24 + 403

(* hash ^= (uint8_t)byte; hash *= 16777619;   (mod 2^32) *)
HashStep(hash, byte) ==
    LET lo1 == (hash.lo \div 256) * 256 + Xor8(hash.lo % 256, byte, 8)
        p   == lo1 * FNV_PRIME_LOW
    IN  [lo |-> p % 65536,
         hi |-> (hash.hi * FNV_PRIME_LOW + (p \div 65536) + (lo1 % 256) * 256) % 65536]

RECURSIVE HashLoop(_, _, _, _)
HashLoop(key, length, i, hash) ==
    IF i < length
    THEN HashLoop(key, length, i + 1, HashStep(hash, Ascii[SubSeq(key, i + 1, i + 1)]))
    ELSE hash

hashString(key, length) == HashLoop(key, length, 0, FNV_OFFSET)

(* table.c is not part of the sources; the two operations object.c calls   *)
(* are taken from the table's description: a map keyed by string objects,  *)
(* here the sequence of its entries in insertion order.                    *)
tableFindString(table, chars, length, hash, heap) ==
    LET hits == {i \in 1..Len(table) :
                    /\ heap[table[i].key].length = length
                    /\ heap[table[i].key].hash = hash
                    /\ SubSeq(heap[table[i].key].chars, 1, length) = SubSeq(chars, 1, length)}
    IN  IF hits = {} THEN NULL ELSE table[CHOOSE i \in hits : \A j \in hits : i <= j].key

tableSet(table, key, value) ==
    IF \E i \in 1..Len(table) : table[i].key = key
    THEN [i \in 1..Len(table) |->
            IF table[i].key = key THEN [key |-> key, value |-> value] ELSE table[i]]
    ELSE Append(table, [key |-> key, value |-> value])

(* reallocate(NULL, 0, size): a fresh block *)
reallocateNew(v) == [v EXCEPT !.allocs = @ + 1]

(* reallocate(pointer, size, 0): the block is released *)
reallocateFree(v) == [v EXCEPT !.frees = @ + 1]

(* allocateObject without the assignment vm.objects = object *)
allocateObject_KeepsHead(v, type) ==
    LET v1     == reallocateNew(v)
        object == Len(v1.heap) + 1
    IN  [st  |-> [v1 EXCEPT !.heap = Append(@, [type |-> type, next |-> v1.objects])],
         ret |-> object]

(* object.c:23 *)
allocateObject(v, type) ==
    LET v1     == reallocateNew(v)
        object == Len(v1.heap) + 1
    IN  [st  |-> [v1 EXCEPT !.heap = Append(@, [type |-> type, next |-> v1.objects]),
                            !.objects = object],
         ret |-> object]

(* object.c:38 *)
allocateString(v, chars, length, hash) ==
    Bind(allocateObject(v, "OBJ_STRING"), LAMBDA a :
    [st  |-> [a.st EXCEPT !.heap[a.ret] =
                              [type |-> @.type, next |-> @.next,
                               length |-> length, chars |-> chars, hash |-> hash],
                          !.strings = tableSet(@, a.ret, "NIL_VAL"),
                          !.tableSets = Append(@, [key |-> a.ret, stack |-> a.st.stack])],
     ret |-> a.ret])

(* object.c:62 *)
takeString(v, chars, length) ==
    Bind(hashString(chars, length), LAMBDA hash :
    Bind(tableFindString(v.strings, chars, length, hash, v.heap), LAMBDA interned :
    IF interned # NULL
    THEN [st |-> reallocateFree(v), ret |-> interned]
    ELSE allocateString(v, chars, length, hash)))

(* copyString without the look-up in vm.strings *)
copyString_AlwaysAllocates(v, chars, length) ==
    allocateString(reallocateNew(v), SubSeq(chars, 1, length), length,
                   hashString(chars, length))

(* object.c:74 *)
copyString(v, chars, length) ==
    Bind(hashString(chars, length), LAMBDA hash :
    Bind(tableFindString(v.strings, chars, length, hash, v.heap), LAMBDA interned :
    IF interned # NULL
    THEN [st |-> v, ret |-> interned]
    ELSE allocateString(reallocateNew(v),         \* ALLOCATE(char, length + 1)
                        SubSeq(chars, 1, length), \* memcpy and the '\0'
                        length, hash)))

(* ============================ compiler.c =============================== *)
(* An entry of the log: what happened (ev), the details (d), and the      *)
(* value of parser.panicMode at that point.                               *)
Log(s, ev, d) ==
    [s EXCEPT !.log = Append(@, [ev |-> ev, panic |-> s.parser.panicMode, d |-> d])]

(* `current` and the chunk it writes to (compiler.c:105) *)
Top(s) == Len(s.compilers)

Cur(s) == s.compilers[Top(s)]

(* the log keeps the scope table of every Compiler of the chain after each *)
(* function that writes to one: scopeDepth and locals[0 .. localCount-1]   *)
Scope(s, op) ==
    Log(s, "scope",
        [op       |-> op,
         hadError |-> s.parser.hadError,
         frames   |-> [i \in 1..Len(s.compilers) |->
                          [scopeDepth |-> s.compilers[i].scopeDepth,
                           locals     |-> s.compilers[i].locals]]])

currentChunk(s) == Cur(s).function.chunk

(* errorAt without the test of panicMode at its head *)
errorAt_AlwaysReports(s, token, message) ==
    Log([s EXCEPT !.parser.panicMode = TRUE, !.parser.hadError = TRUE],
        "report", message)

(* compiler.c:115; a "report" entry of the log is a message on stderr *)
errorAt(s, token, message) ==
    IF s.parser.panicMode
    THEN Log(s, "suppressed", message)
    ELSE Log([s EXCEPT !.parser.panicMode = TRUE, !.parser.hadError = TRUE],
             "report", message)

(* compiler.c:134 *)
error(s, message) == errorAt(s, s.parser.previous, message)

(* compiler.c:142 *)
errorAtCurrent(s, message) == errorAt(s, s.parser.current, message)

(* The scanner hands out the tokens of the source one by one and         *)
(* TOKEN_EOF from then on (scanner.c:249).                               *)
scanToken(s) ==
    IF s.scanner.next < Len(s.scanner.tokens)
    THEN [st  |-> [s EXCEPT !.scanner.next = @ + 1],
          ret |-> s.scanner.tokens[s.scanner.next + 1]]
    ELSE [st |-> s, ret |-> TokenEOF]

(* the loop of advance left after its first scanToken, whatever the token *)
advanceLoop_TakesErrorToken(s) ==
    Bind(scanToken(s), LAMBDA t : [t.st EXCEPT !.parser.current = t.ret])

(* the for (;;) of advance, compiler.c:152 *)
RECURSIVE advanceLoop(_)
advanceLoop(s) ==
    Bind(scanToken(s), LAMBDA t :
    IF t.ret.type # "TOKEN_ERROR"
    THEN [t.st EXCEPT !.parser.current = t.ret]
    ELSE advanceLoop(errorAtCurrent([t.st EXCEPT !.parser.current = t.ret], t.ret.start)))

(* compiler.c:149; the log keeps the tokens the call took from the        *)
(* scanner and the token it left in parser.current                        *)
advance(s) ==
    Bind(advanceLoop([s EXCEPT !.parser.previous = s.parser.current]), LAMBDA s1 :
    Log(s1, "advance",
        [scanned |-> SubSeq(s.scanner.tokens, s.scanner.next + 1, s1.scanner.next),
         current |-> s1.parser.current]))

(* compiler.c:166 *)
consume(s, type, message) ==
    IF s.parser.current.type = type
    THEN advance(s)
    ELSE errorAtCurrent(s, message)

(* compiler.c:180 *)
check(s, type) == s.parser.current.type = type

(* compiler.c:189: match returns check(type) and leaves this state *)
match(s, type) == IF ~check(s, type) THEN s ELSE advance(s)

(* chunk.c is not part of the sources: writeChunk appends the byte,       *)
(* addConstant appends the value and returns its index.                  *)
writeChunk(chunk, byte) == [chunk EXCEPT !.code = Append(@, byte)]

addConstant(chunk, value) ==
    [chunk |-> [chunk EXCEPT !.constants = Append(@, value)],
     ret   |-> Len(chunk.constants)]

(* compiler.c:199; the parameter is a uint8_t *)
emitByte(s, byte) ==
    [s EXCEPT !.compilers[Top(s)].function.chunk = writeChunk(@, byte % 256)]

(* compiler.c:208 *)
emitBytes(s, byte1, byte2) == emitByte(emitByte(s, byte1), byte2)

(* emitLoop with the test offset >= UINT16_MAX *)
emitLoop_OneEarly(s, loopStart) ==
    Bind(emitByte(s, OP_LOOP), LAMBDA s1 :
    Bind(Len(currentChunk(s1).code) - loopStart + 2, LAMBDA offset :
    Bind(emitByte(emitByte(IF offset >= UINT16_MAX THEN error(s1, "Loop body too large.") ELSE s1,
                           (offset \div 256) % 256),
                  offset % 256), LAMBDA s2 :
    Log(s2, "emitLoop",
        [offset    |-> offset,
         loopStart |-> loopStart,
         chunk     |-> Top(s2),
         count     |-> Len(currentChunk(s2).code),
         operand   |-> SubSeq(currentChunk(s2).code, Len(currentChunk(s2).code) - 1,
                              Len(currentChunk(s2).code))]))))

(* compiler.c:217; offset is an int, the two bytes are (offset >> 8) &     *)
(* 0xff and offset & 0xff                                                  *)
emitLoop(s, loopStart) ==
    Bind(emitByte(s, OP_LOOP), LAMBDA s1 :
    Bind(Len(currentChunk(s1).code) - loopStart + 2, LAMBDA offset :
    Bind(emitByte(emitByte(IF offset > UINT16_MAX THEN error(s1, "Loop body too large.") ELSE s1,
                           (offset \div 256) % 256),
                  offset % 256), LAMBDA s2 :
    Log(s2, "emitLoop",
        [offset    |-> offset,
         loopStart |-> loopStart,
         chunk     |-> Top(s2),
         count     |-> Len(currentChunk(s2).code),
         operand   |-> SubSeq(currentChunk(s2).code, Len(currentChunk(s2).code) - 1,
                              Len(currentChunk(s2).code))]))))

(* compiler.c:232 *)
emitJump(s, instruction) ==
    Bind(emitByte(emitByte(emitByte(s, instruction), 255), 255), LAMBDA s1 :
    [st  |-> Log(s1, "emitJump",
                 [instruction |-> instruction,
                  chunk       |-> Top(s1),
                  ret         |-> Len(currentChunk(s1).code) - 2]),
     ret |-> Len(currentChunk(s1).code) - 2])

(* compiler.c:242 *)
emitReturn(s) == emitByte(emitByte(s, OP_NIL), OP_RETURN)

(* makeConstant with the test constant >= UINT8_MAX *)
makeConstant_OneEarly(s, value) ==
    LET a  == addConstant(currentChunk(s), value)
        s1 == [s EXCEPT !.compilers[Top(s)].function.chunk = a.chunk]
    IN  IF a.ret >= UINT8_MAX
        THEN [st  |-> Log(error(s1, "Too many constants in one chunk."),
                          "makeConstant", [constant |-> a.ret, ret |-> 0]),
              ret |-> 0]
        ELSE [st  |-> Log(s1, "makeConstant", [constant |-> a.ret, ret |-> a.ret % 256]),
              ret |-> a.ret % 256]

(* compiler.c:252; the log keeps what addConstant returned and what the   *)
(* call returns                                                           *)
makeConstant(s, value) ==
    LET a  == addConstant(currentChunk(s), value)
        s1 == [s EXCEPT !.compilers[Top(s)].function.chunk = a.chunk]
    IN  IF a.ret > UINT8_MAX
        THEN [st  |-> Log(error(s1, "Too many constants in one chunk."),
                          "makeConstant", [constant |-> a.ret, ret |-> 0]),
              ret |-> 0]
        ELSE [st  |-> Log(s1, "makeConstant", [constant |-> a.ret, ret |-> a.ret % 256]),
              ret |-> a.ret % 256]

(* compiler.c:266 *)
emitConstant(s, value) ==
    Bind(makeConstant(s, value), LAMBDA m :
    emitBytes(m.st, OP_CONSTANT, m.ret))

(* patchJump with the jump counted from the first byte of the operand *)
patchJump_FromOperand(s, offset) ==
    Bind(Len(currentChunk(s).code) - offset, LAMBDA jump :
    Bind([(IF jump > UINT16_MAX THEN error(s, "Too much code to jump over.") ELSE s)
             EXCEPT !.compilers[Top(s)].function.chunk.code =
                 [@ EXCEPT ![offset + 1] = (jump \div 256) % 256,
                           ![offset + 2] = jump % 256]], LAMBDA s1 :
    Log(s1, "patchJump",
        [offset      |-> offset,
         chunk       |-> Top(s1),
         count       |-> Len(currentChunk(s1).code),
         instruction |-> currentChunk(s1).code[offset],
         operand     |-> SubSeq(currentChunk(s1).code, offset + 1, offset + 2)])))

(* compiler.c:270; code[offset] of the C array is code[offset + 1] here *)
patchJump(s, offset) ==
    Bind(Len(currentChunk(s).code) - offset - 2, LAMBDA jump :
    Bind([(IF jump > UINT16_MAX THEN error(s, "Too much code to jump over.") ELSE s)
             EXCEPT !.compilers[Top(s)].function.chunk.code =
                 [@ EXCEPT ![offset + 1] = (jump \div 256) % 256,
                           ![offset + 2] = jump % 256]], LAMBDA s1 :
    Log(s1, "patchJump",
        [offset      |-> offset,
         chunk       |-> Top(s1),
         count       |-> Len(currentChunk(s1).code),
         instruction |-> currentChunk(s1).code[offset],
         operand     |-> SubSeq(currentChunk(s1).code, offset + 1, offset + 2)])))

(* Values of the constant pool (value.h) *)
NUMBER_VAL(n) == [kind |-> "number", val |-> n]

OBJ_VAL(kind, obj) == [kind |-> kind, val |-> obj]

(* object.c of the sources has no newFunction; its result is the empty   *)
(* function object the compiler starts from.                             *)
newFunction ==
    [arity |-> 0, upvalueCount |-> 0, name |-> NULL,
     chunk |-> [code |-> <<>>, constants |-> <<>>]]

(* compiler.c:285.  locals holds locals[0 .. localCount-1], upvalues the *)
(* elements of the upvalues array written so far.                        *)
initCompiler(s, type) ==
    LET compiler == [function |-> newFunction, type |-> type,
                     locals |-> <<>>, upvalues |-> <<>>, scopeDepth |-> 0]
        local    == [name |-> [start |-> "", length |-> 0],
                     depth |-> 0, isCaptured |-> FALSE]
    IN  Scope(IF type # "TYPE_SCRIPT"
              THEN Bind(copyString(s.vm, s.parser.previous.start, s.parser.previous.length),
                        LAMBDA c :
                   [s EXCEPT !.vm = c.st,
                             !.compilers = Append(@, [compiler EXCEPT !.function.name = c.ret,
                                                                      !.locals = <<local>>])])
              ELSE [s EXCEPT !.compilers = Append(@, [compiler EXCEPT !.locals = <<local>>])],
              "initCompiler")

(* compiler.c:307 *)
endCompiler(s) ==
    Bind(emitReturn(s), LAMBDA s1 :
    [st  |-> [s1 EXCEPT !.compilers = SubSeq(@, 1, Len(@) - 1)],
     ret |-> Cur(s1).function])

(* compiler.c:324 *)
beginScope(s) == Scope([s EXCEPT !.compilers[Top(s)].scopeDepth = @ + 1], "beginScope")

(* endScope with a loop that leaves the locals of the scope it ends *)
endScope_KeepsLocals(s) ==
    Bind([s EXCEPT !.compilers[Top(s)].scopeDepth = @ - 1], LAMBDA s1 :
    Scope(Log(s1, "endScope",
              [before  |-> Cur(s).locals,
               depth   |-> Cur(s).scopeDepth - 1,
               after   |-> Cur(s1).locals,
               emitted |-> <<>>]), "endScope"))

(* the while of endScope, compiler.c:334 *)
RECURSIVE endScopeLoop(_)
endScopeLoop(s) ==
    LET c == Cur(s)
        n == Len(c.locals)
    IN  IF n > 0 /\ c.locals[n].depth > c.scopeDepth
        THEN Bind(emitByte(emitByte(s, OP_POP),
                           IF c.locals[n].isCaptured THEN OP_CLOSE_UPVALUE ELSE OP_POP), LAMBDA s1 :
             endScopeLoop([s1 EXCEPT !.compilers[Top(s)].locals = SubSeq(@, 1, n - 1)]))
        ELSE s

(* compiler.c:331 *)
endScope(s) ==
    Bind(endScopeLoop([s EXCEPT !.compilers[Top(s)].scopeDepth = @ - 1]), LAMBDA s1 :
    Scope(Log(s1, "endScope",
              [before  |-> Cur(s).locals,
               depth   |-> Cur(s).scopeDepth - 1,
               after   |-> Cur(s1).locals,
               emitted |-> SubSeq(currentChunk(s1).code,
                                  Len(currentChunk(s).code) + 1,
                                  Len(currentChunk(s1).code))]), "endScope"))


(* compiler.c:380 *)
identifierConstant(s, name) ==
    Bind(copyString(s.vm, name.start, name.length), LAMBDA c :
    makeConstant([s EXCEPT !.vm = c.st], OBJ_VAL("string", c.ret)))

(* compiler.c:390 *)
identifiersEqual(a, b) ==
    IF a.length # b.length THEN FALSE
    ELSE SubSeq(a.start, 1, a.length) = SubSeq(b.start, 1, a.length)

(* compiler.c:401; level is the position of *compiler in the chain.  The  *)
(* for runs from i down to 0 and returns at the first equal name it meets: *)
(* the highest equal entry at or below i.                                 *)
resolveLocalLoop(s, level, name, i) ==
    LET locals == s.compilers[level].locals
        equal  == {j \in 0..i : identifiersEqual(name, locals[j + 1].name)}
        found  == CHOOSE j \in equal : \A k \in equal : k <= j
    IN  IF equal # {}
        THEN [st  |-> IF locals[found + 1].depth = -1
                      THEN error(s, "Can't read local variable in its own initializer.")
                      ELSE s,
              ret |-> found]
        ELSE [st |-> s, ret |-> -1]

(* resolveLocal with the loop running from the first local upwards *)
resolveLocal_FirstDeclared(s, level, name) ==
    LET locals == s.compilers[level].locals
        found  == {i \in 0..(Len(locals) - 1) : identifiersEqual(name, locals[i + 1].name)}
        first  == CHOOSE i \in found : \A j \in found : i <= j
    IN  IF found = {} THEN [st |-> s, ret |-> -1]
        ELSE [st  |-> IF locals[first + 1].depth = -1
                      THEN error(s, "Can't read local variable in its own initializer.")
                      ELSE s,
              ret |-> first]

resolveLocal(s, level, name) ==
    resolveLocalLoop(s, level, name, Len(s.compilers[level].locals) - 1)

(* the for of addUpvalue, compiler.c:427: it runs from i up and returns at *)
(* the first equal entry it meets, the lowest one below upvalueCount; -1   *)
(* when it runs to its end                                                *)
addUpvalueLoop(upvalues, upvalueCount, index, isLocal, i) ==
    LET equal == {j \in i..(upvalueCount - 1) :
                     upvalues[j + 1].index = index /\ upvalues[j + 1].isLocal = isLocal}
    IN  IF equal # {} THEN CHOOSE j \in equal : \A k \in equal : j <= k
        ELSE -1

(* addUpvalue without the search for an equal entry *)
addUpvalue_NoDedupe(s, level, index, isLocal) ==
    LET compiler     == s.compilers[level]
        upvalueCount == compiler.function.upvalueCount
        entry        == [index |-> index % 256, isLocal |-> isLocal]
        s1 == IF upvalueCount >= UINT8_COUNT
              THEN Log(s, "storePastUpvalues", upvalueCount)
              ELSE [s EXCEPT !.compilers[level].upvalues =
                       IF Len(@) > upvalueCount
                       THEN [@ EXCEPT ![upvalueCount + 1] = entry]
                       ELSE Append(@, entry)]
        found == -1
    IN  Bind(IF found # -1 THEN [st |-> s1, ret |-> found]
             ELSE IF upvalueCount = UINT8_COUNT
             THEN [st |-> error(s1, "Too many closure variables in function."), ret |-> 0]
             ELSE [st  |-> [s1 EXCEPT !.compilers[level].function.upvalueCount = @ + 1],
                   ret |-> upvalueCount], LAMBDA r :
        [st  |-> Log(r.st, "addUpvalue",
                     [index |-> index, isLocal |-> isLocal, ret |-> r.ret,
                      old |-> SubSeq(compiler.upvalues, 1, upvalueCount),
                      new |-> SubSeq(r.st.compilers[level].upvalues, 1,
                                     r.st.compilers[level].function.upvalueCount)]),
         ret |-> r.ret])

(* compiler.c:422; index is a uint8_t.  The two stores come first, also  *)
(* when upvalueCount is UINT8_COUNT and the element lies past the array:  *)
(* that store is recorded in the log and changes nothing else here.       *)
addUpvalue(s, level, index, isLocal) ==
    LET compiler     == s.compilers[level]
        upvalueCount == compiler.function.upvalueCount
        entry        == [index |-> index % 256, isLocal |-> isLocal]
        s1 == IF upvalueCount >= UINT8_COUNT
              THEN Log(s, "storePastUpvalues", upvalueCount)
              ELSE [s EXCEPT !.compilers[level].upvalues =
                       IF Len(@) > upvalueCount
                       THEN [@ EXCEPT ![upvalueCount + 1] = entry]
                       ELSE Append(@, entry)]
        found == addUpvalueLoop(s1.compilers[level].upvalues, upvalueCount,
                                index % 256, isLocal, 0)
    IN  Bind(IF found # -1 THEN [st |-> s1, ret |-> found]
             ELSE IF upvalueCount = UINT8_COUNT
             THEN [st |-> error(s1, "Too many closure variables in function."), ret |-> 0]
             ELSE [st  |-> [s1 EXCEPT !.compilers[level].function.upvalueCount = @ + 1],
                   ret |-> upvalueCount], LAMBDA r :
        [st  |-> Log(r.st, "addUpvalue",
                     [index |-> index, isLocal |-> isLocal, ret |-> r.ret,
                      old |-> SubSeq(compiler.upvalues, 1, upvalueCount),
                      new |-> SubSeq(r.st.compilers[level].upvalues, 1,
                                     r.st.compilers[level].function.upvalueCount)]),
         ret |-> r.ret])

(* the log's entry for a `return (int)addUpvalue(...)` of resolveUpvalue *)
resolved(level, name, via, found, a) ==
    Bind(a, LAMBDA r :
    [st  |-> Log(r.st, "resolveUpvalue",
                 [name |-> name.start, via |-> via, found |-> found,
                  ret |-> r.ret,
                  entry |-> r.st.compilers[level].upvalues[r.ret + 1],
                  enclosing |-> r.st.compilers[level - 1].locals]),
     ret |-> r.ret])

(* compiler.c:448 *)
RECURSIVE resolveUpvalue(_, _, _)
resolveUpvalue(s, level, name) ==
    IF level = 1 THEN [st |-> s, ret |-> -1]
    ELSE Bind(resolveLocal(s, level - 1, name), LAMBDA local :
         IF local.ret # -1
         THEN resolved(level, name, "local", local.ret,
                       addUpvalue([local.st EXCEPT
                                      !.compilers[level - 1].locals[local.ret + 1].isCaptured = TRUE],
                                  level, local.ret, TRUE))
         ELSE Bind(resolveUpvalue(local.st, level - 1, name), LAMBDA upvalue :
              IF upvalue.ret # -1
              THEN resolved(level, name, "upvalue", upvalue.ret,
                            addUpvalue(upvalue.st, level, upvalue.ret, FALSE))
              ELSE [st |-> upvalue.st, ret |-> -1]))

(* addLocal with the test localCount == UINT8_COUNT + 1 *)
addLocal_OneLate(s, name) ==
    Bind(IF Len(Cur(s).locals) = UINT8_COUNT + 1
         THEN error(s, "Too many local variables in function.")
         ELSE [s EXCEPT !.compilers[Top(s)].locals =
                 Append(@, [name |-> [start |-> name.start, length |-> name.length],
                            depth |-> -1, isCaptured |-> FALSE])], LAMBDA s1 :
    Scope(Log(s1, "addLocal", [name |-> name.start, before |-> Len(Cur(s).locals),
                               after |-> Len(Cur(s1).locals)]), "addLocal"))

(* compiler.c:469; the log keeps localCount before and after the call *)
addLocal(s, name) ==
    Bind(IF Len(Cur(s).locals) = UINT8_COUNT
         THEN error(s, "Too many local variables in function.")
         ELSE [s EXCEPT !.compilers[Top(s)].locals =
                 Append(@, [name |-> [start |-> name.start, length |-> name.length],
                            depth |-> -1, isCaptured |-> FALSE])], LAMBDA s1 :
    Scope(Log(s1, "addLocal", [name |-> name.start, before |-> Len(Cur(s).locals),
                               after |-> Len(Cur(s1).locals)]), "addLocal"))

(* the for of declareVariable, compiler.c:489 *)
RECURSIVE declareVariableLoop(_, _, _)
declareVariableLoop(s, name, i) ==
    IF i >= 0
    THEN LET local == Cur(s).locals[i + 1]
         IN  IF local.depth # -1 /\ local.depth < Cur(s).scopeDepth
             THEN s
             ELSE declareVariableLoop(
                      IF identifiersEqual(name, local.name)
                      THEN error(s, "Already a variable with this name in this scope.")
                      ELSE s,
                      name, i - 1)
    ELSE s

(* compiler.c:484 *)
declareVariable(s) ==
    IF Cur(s).scopeDepth = 0 THEN s
    ELSE addLocal(declareVariableLoop(s, s.parser.previous, Len(Cur(s).locals) - 1),
                  s.parser.previous)

(* compiler.c:508 *)
parseVariable(s, errorMessage) ==
    Bind(declareVariable(consume(s, "TOKEN_IDENTIFIER", errorMessage)), LAMBDA s1 :
    IF Cur(s1).scopeDepth > 0 THEN [st |-> s1, ret |-> 0]
    ELSE identifierConstant(s1, s1.parser.previous))

(* compiler.c:520 *)
markInitialised(s) ==
    IF Cur(s).scopeDepth = 0 THEN s
    ELSE Scope([s EXCEPT !.compilers[Top(s)].locals[Len(Cur(s).locals)].depth =
                             Cur(s).scopeDepth], "markInitialised")

(* compiler.c:529 *)
defineVariable(s, global) ==
    IF Cur(s).scopeDepth > 0 THEN markInitialised(s)
    ELSE emitBytes(s, OP_DEFINE_GLOBAL, global)

(* compiler.c:350-373: declared ahead of their definitions *)
RECURSIVE expression(_), statement(_), declaration(_), parsePrecedence(_, _)

(* the do-while of argumentList, compiler.c:545; argCount is a uint8_t *)
RECURSIVE argumentListLoop(_, _)
argumentListLoop(s, argCount) ==
    Bind(expression(s), LAMBDA s1 :
    Bind(IF argCount = 255 THEN error(s1, "Can't have more than 255 arguments.") ELSE s1, LAMBDA s2 :
    IF check(s2, "TOKEN_COMMA")
    THEN argumentListLoop(match(s2, "TOKEN_COMMA"), (argCount + 1) % 256)
    ELSE [st |-> s2, ret |-> (argCount + 1) % 256]))

(* compiler.c:542 *)
argumentList(s) ==
    Bind(IF ~check(s, "TOKEN_RIGHT_PAREN")
         THEN argumentListLoop(s, 0)
         ELSE [st |-> s, ret |-> 0], LAMBDA a :
    [st  |-> consume(a.st, "TOKEN_RIGHT_PAREN", "Expect ')' after arguments."),
     ret |-> a.ret])

(* and_ without the emitByte(OP_POP) of compiler.c:565 *)
and_KeepsLeft(s, canAssign) ==
    Bind(emitJump(s, OP_JUMP_IF_FALSE), LAMBDA endJump :
    Bind(parsePrecedence(endJump.st, PREC_AND), LAMBDA s1 :
    patchJump(s1, endJump.ret)))

(* compiler.c:562 *)
and_(s, canAssign) ==
    Bind(emitJump(s, OP_JUMP_IF_FALSE), LAMBDA endJump :
    Bind(parsePrecedence(emitByte(endJump.st, OP_POP), PREC_AND), LAMBDA s1 :
    patchJump(s1, endJump.ret)))

(* compiler.c:575 *)
or_(s, canAssign) ==
    Bind(emitJump(s, OP_JUMP_IF_FALSE), LAMBDA elseJump :
    Bind(emitJump(elseJump.st, OP_JUMP), LAMBDA endJump :
    Bind(parsePrecedence(emitByte(patchJump(endJump.st, elseJump.ret), OP_POP), PREC_OR), LAMBDA s1 :
    patchJump(s1, endJump.ret))))

(* compiler.c:589 *)
binary(s, canAssign) ==
    LET operatorType == s.parser.previous.type
        rule         == getRule(operatorType)
    IN  Bind(parsePrecedence(s, rule.precedence + 1), LAMBDA s1 :
        CASE operatorType = "TOKEN_BANG_EQUAL"    -> emitBytes(s1, OP_EQUAL, OP_NOT)
          [] operatorType = "TOKEN_EQUAL_EQUAL"   -> emitByte(s1, OP_EQUAL)
          [] operatorType = "TOKEN_GREATER"       -> emitByte(s1, OP_GREATER)
          [] operatorType = "TOKEN_GREATER_EQUAL" -> emitBytes(s1, OP_LESS, OP_NOT)
          [] operatorType = "TOKEN_LESS"          -> emitByte(s1, OP_LESS)
          [] operatorType = "TOKEN_LESS_EQUAL"    -> emitBytes(s1, OP_GREATER, OP_NOT)
          [] operatorType = "TOKEN_PLUS"          -> emitByte(s1, OP_ADD)
          [] operatorType = "TOKEN_MINUS"         -> emitByte(s1, OP_SUBTRACT)
          [] operatorType = "TOKEN_STAR"          -> emitByte(s1, OP_MULTIPLY)
          [] operatorType = "TOKEN_SLASH"         -> emitByte(s1, OP_DIVIDE)
          [] OTHER -> s1)

(* compiler.c:613 *)
call(s, canAssign) ==
    Bind(argumentList(s), LAMBDA argCount :
    emitBytes(argCount.st, OP_CALL, argCount.ret))

(* compiler.c:621 *)
literal(s, canAssign) ==
    CASE s.parser.previous.type = "TOKEN_FALSE" -> emitByte(s, OP_FALSE)
      [] s.parser.previous.type = "TOKEN_NIL"   -> emitByte(s, OP_NIL)
      [] s.parser.previous.type = "TOKEN_TRUE"  -> emitByte(s, OP_TRUE)
      [] OTHER -> s

(* compiler.c:631 *)
expression(s) == parsePrecedence(s, PREC_ASSIGNMENT)

(* the while of block, compiler.c:639 *)
RECURSIVE blockLoop(_)
blockLoop(s) ==
    IF ~check(s, "TOKEN_RIGHT_BRACE") /\ ~check(s, "TOKEN_EOF")
    THEN Bind(declaration(s), LAMBDA s1 : blockLoop(s1))
    ELSE s

(* compiler.c:638 *)
block(s) == consume(blockLoop(s), "TOKEN_RIGHT_BRACE", "Expect '}' after block.")

(* the do-while over the parameters, compiler.c:657 *)
RECURSIVE functionParams(_)
functionParams(s) ==
    LET s1 == [s EXCEPT !.compilers[Top(s)].function.arity = @ + 1]
    IN  Bind(parseVariable(IF Cur(s1).function.arity > 255
                           THEN errorAtCurrent(s1, "Can't have more than 255 parameters.")
                           ELSE s1,
                           "Expect parameter name."), LAMBDA constant :
        Bind(defineVariable(constant.st, constant.ret), LAMBDA s2 :
        IF check(s2, "TOKEN_COMMA")
        THEN functionParams(match(s2, "TOKEN_COMMA"))
        ELSE s2))

(* the for over the upvalues with `i < function->upvalueCount - 1` *)
RECURSIVE functionUpvalues_StopsEarly(_, _, _, _)
functionUpvalues_StopsEarly(s, compiler, upvalueCount, i) ==
    IF i < upvalueCount - 1
    THEN functionUpvalues_StopsEarly(
             emitByte(emitByte(s, IF compiler.upvalues[i + 1].isLocal THEN 1 ELSE 0),
                      compiler.upvalues[i + 1].index),
             compiler, upvalueCount, i + 1)
    ELSE s

(* the for over the upvalues, compiler.c:675: two bytes appended to the    *)
(* code by emitByte for each of the upvalues i .. upvalueCount - 1         *)
functionUpvalues(s, compiler, upvalueCount, i) ==
    [s EXCEPT !.compilers[Top(s)].function.chunk.code =
        @ \o [k \in 1..(2 * (upvalueCount - i)) |->
                 LET upvalue == compiler.upvalues[i + ((k + 1) \div 2)]
                 IN  IF k % 2 = 1 THEN (IF upvalue.isLocal THEN 1 ELSE 0)
                     ELSE upvalue.index % 256]]

(* compiler.c:651-667: function up to the '{' of the body *)
functionSignature(s, type) ==
    Bind(consume(beginScope(initCompiler(s, type)), "TOKEN_LEFT_PAREN",
                 "Expect '(' after function name."), LAMBDA s1 :
    Bind(IF ~check(s1, "TOKEN_RIGHT_PAREN") THEN functionParams(s1) ELSE s1, LAMBDA s2 :
    consume(consume(s2, "TOKEN_RIGHT_PAREN", "Expect ')' after parameters."),
            "TOKEN_LEFT_BRACE", "Expect '{' before function body.")))

(* compiler.c:670-678: function after the block of the body *)
functionEnd(s1) ==
    Bind(endCompiler(s1), LAMBDA e :
    Bind(makeConstant(e.st, OBJ_VAL("function", e.ret)), LAMBDA m :
    Bind(functionUpvalues(emitBytes(m.st, OP_CLOSURE, m.ret),
                          Cur(s1), e.ret.upvalueCount, 0), LAMBDA s2 :
    Log(s2, "closure",
        [function  |-> e.ret,
         upvalues  |-> Cur(s1).upvalues,
         constants |-> currentChunk(s2).constants,
         emitted   |-> SubSeq(currentChunk(s2).code,
                              Len(currentChunk(e.st).code) + 1,
                              Len(currentChunk(s2).code))]))))

(* compiler.c:650 *)
function(s, type) == functionEnd(block(functionSignature(s, type)))

(* compiler.c:681 *)
funDeclaration(s) ==
    Bind(parseVariable(s, "Expect function name."), LAMBDA global :
    Bind(function(markInitialised(global.st), "TYPE_FUNCTION"), LAMBDA s1 :
    defineVariable(s1, global.ret)))

(* current->locals[current->localCount - 1] *)
lastLocal(s) == Cur(s).locals[Len(Cur(s).locals)]

(* varDeclaration that marks the variable initialised as funDeclaration *)
(* does, before what follows the name                                    *)
varDeclaration_MarksFirst(s) ==
    Bind(parseVariable(s, "Expect variable name."), LAMBDA global :
    Bind(IF check(global.st, "TOKEN_EQUAL")
         THEN expression(match(markInitialised(global.st), "TOKEN_EQUAL"))
         ELSE emitByte(markInitialised(global.st), OP_NIL), LAMBDA s1 :
    Bind(defineVariable(consume(s1, "TOKEN_SEMICOLON",
                                "Expect ';' after variable declaration."),
                        global.ret), LAMBDA s2 :
    Log(s2, "varDeclaration",
        [name   |-> global.st.parser.previous.start,
         scope  |-> Cur(s).scopeDepth,
         added  |-> Len(Cur(global.st).locals) > Len(Cur(s).locals),
         during |-> lastLocal(markInitialised(global.st)).depth,
         after  |-> lastLocal(s2).depth,
         first  |-> Len(global.st.log) + 1]))))

(* compiler.c:689 *)
varDeclaration(s) ==
    Bind(parseVariable(s, "Expect variable name."), LAMBDA global :
    Bind(IF check(global.st, "TOKEN_EQUAL")
         THEN expression(match(global.st, "TOKEN_EQUAL"))
         ELSE emitByte(global.st, OP_NIL), LAMBDA s1 :
    Bind(defineVariable(consume(s1, "TOKEN_SEMICOLON",
                                "Expect ';' after variable declaration."),
                        global.ret), LAMBDA s2 :
    Log(s2, "varDeclaration",
        [name   |-> global.st.parser.previous.start,
         scope  |-> Cur(s).scopeDepth,
         added  |-> Len(Cur(global.st).locals) > Len(Cur(s).locals),
         during |-> lastLocal(global.st).depth,
         after  |-> lastLocal(s2).depth,
         first  |-> Len(global.st.log) + 1]))))

(* compiler.c:703 *)
expressionStatement(s) ==
    Bind(expression(s), LAMBDA s1 :
    emitByte(consume(s1, "TOKEN_SEMICOLON", "Expect ';' after expression."), OP_POP))

(* compiler.c:715-721: the initializer clause of for *)
forInitializer(s) ==
    CASE check(s, "TOKEN_SEMICOLON") -> match(s, "TOKEN_SEMICOLON")
      [] check(s, "TOKEN_VAR")       -> varDeclaration(match(s, "TOKEN_VAR"))
      [] OTHER                       -> expressionStatement(s)

(* compiler.c:724-732: the condition clause of for; ret is exitJump *)
forCondition(s) ==
    IF ~check(s, "TOKEN_SEMICOLON")
    THEN Bind(expression(s), LAMBDA s1 :
         Bind(emitJump(consume(s1, "TOKEN_SEMICOLON", "Expect ';' after loop condition."),
                       OP_JUMP_IF_FALSE), LAMBDA exitJump :
         [st |-> emitByte(exitJump.st, OP_POP), ret |-> exitJump.ret]))
    ELSE [st |-> match(s, "TOKEN_SEMICOLON"), ret |-> -1]

(* forIncrement without loopStart = incrementStart of compiler.c:743 *)
forIncrement_KeepsLoopStart(s, loopStart) ==
    IF ~check(s, "TOKEN_RIGHT_PAREN")
    THEN Bind(emitJump(s, OP_JUMP), LAMBDA bodyJump :
         Bind(expression(bodyJump.st), LAMBDA s1 :
         [st  |-> patchJump(emitLoop(consume(emitByte(s1, OP_POP), "TOKEN_RIGHT_PAREN",
                                             "Expect ')' for after clauses."),
                                     loopStart),
                            bodyJump.ret),
          ret |-> loopStart]))
    ELSE [st |-> match(s, "TOKEN_RIGHT_PAREN"), ret |-> loopStart]

(* compiler.c:734-745: the increment clause of for; ret is loopStart *)
forIncrement(s, loopStart) ==
    IF ~check(s, "TOKEN_RIGHT_PAREN")
    THEN Bind(emitJump(s, OP_JUMP), LAMBDA bodyJump :
         Bind(expression(bodyJump.st), LAMBDA s1 :
         [st  |-> patchJump(emitLoop(consume(emitByte(s1, OP_POP), "TOKEN_RIGHT_PAREN",
                                             "Expect ')' for after clauses."),
                                     loopStart),
                            bodyJump.ret),
          ret |-> Len(currentChunk(bodyJump.st).code)]))
    ELSE [st |-> match(s, "TOKEN_RIGHT_PAREN"), ret |-> loopStart]

(* compiler.c:712 *)
forStatement(s) ==
    Bind(forInitializer(consume(beginScope(s), "TOKEN_LEFT_PAREN",
                                "Expect '(' after 'for'.")), LAMBDA s1 :
    Bind(forCondition(s1), LAMBDA exitJump :
    Bind(forIncrement(exitJump.st, Len(currentChunk(s1).code)), LAMBDA loopStart :
    Bind(statement(loopStart.st), LAMBDA s2 :
    endScope(IF exitJump.ret # -1
             THEN emitByte(patchJump(emitLoop(s2, loopStart.ret), exitJump.ret), OP_POP)
             ELSE emitLoop(s2, loopStart.ret))))))

(* compiler.c:760 *)
ifStatement(s) ==
    Bind(expression(consume(s, "TOKEN_LEFT_PAREN", "Expect '(' after 'if'.")), LAMBDA s1 :
    Bind(emitJump(consume(s1, "TOKEN_RIGHT_PAREN", "Expect ')' after condition."),
                  OP_JUMP_IF_FALSE), LAMBDA thenJump :
    Bind(statement(emitByte(thenJump.st, OP_POP)), LAMBDA s2 :
    Bind(emitJump(s2, OP_JUMP), LAMBDA elseJump :
    Bind(IF check(elseJump.st, "TOKEN_ELSE")
         THEN statement(match(patchJump(elseJump.st, thenJump.ret), "TOKEN_ELSE"))
         ELSE patchJump(elseJump.st, thenJump.ret), LAMBDA s3 :
    Bind(emitByte(patchJump(s3, elseJump.ret), OP_POP), LAMBDA s4 :
    Log(s4, "if",
        [from      |-> Len(currentChunk(s).code),
         code      |-> currentChunk(s4).code,
         hasElse   |-> check(elseJump.st, "TOKEN_ELSE"),
         hadError  |-> s4.parser.hadError])))))))

(* compiler.c:781 *)
printStatement(s) ==
    Bind(expression(s), LAMBDA s1 :
    emitByte(consume(s1, "TOKEN_SEMICOLON", "Expect ';' after value."), OP_PRINT))

(* compiler.c:790 *)
returnStatement(s) ==
    Bind(IF Cur(s).type = "TYPE_SCRIPT"
         THEN error(s, "Can't return from top-level code.")
         ELSE s, LAMBDA s1 :
    IF check(s1, "TOKEN_SEMICOLON")
    THEN emitReturn(match(s1, "TOKEN_SEMICOLON"))
    ELSE Bind(expression(s1), LAMBDA s2 :
         emitByte(consume(s2, "TOKEN_SEMICOLON", "Expect ';' after return value."),
                  OP_RETURN)))

(* compiler.c:817-820: whileStatement after the body *)
whileStatementEnd(s, loopStart, exitJump) ==
    emitByte(patchJump(emitLoop(s, loopStart), exitJump), OP_POP)

(* compiler.c:807 *)
whileStatement(s) ==
    Bind(expression(consume(s, "TOKEN_LEFT_PAREN", "Expect '(' after 'while'.")), LAMBDA s1 :
    Bind(emitJump(consume(s1, "TOKEN_RIGHT_PAREN", "Expect ')' after condition."),
                  OP_JUMP_IF_FALSE), LAMBDA exitJump :
    Bind(statement(emitByte(exitJump.st, OP_POP)), LAMBDA s2 :
    whileStatementEnd(s2, Len(currentChunk(s).code), exitJump.ret))))

SyncTokens ==
    {"TOKEN_CLASS", "TOKEN_FUN", "TOKEN_VAR", "TOKEN_FOR", "TOKEN_IF",
     "TOKEN_WHILE", "TOKEN_PRINT", "TOKEN_RETURN"}

(* the while of synchronize, compiler.c:828 *)
RECURSIVE synchronizeLoop(_)
synchronizeLoop(s) ==
    IF s.parser.current.type # "TOKEN_EOF"
    THEN IF s.parser.previous.type = "TOKEN_SEMICOLON" THEN s
         ELSE IF s.parser.current.type \in SyncTokens THEN s
         ELSE synchronizeLoop(advance(s))
    ELSE s

(* synchronize without the assignment of compiler.c:826 *)
synchronize_KeepsPanic(s) ==
    Bind(synchronizeLoop(Log(s, "synchronize", <<>>)), LAMBDA s1 :
    Log(s1, "synchronized",
        [current |-> s1.parser.current.type, previous |-> s1.parser.previous.type]))

(* compiler.c:825; the log has an entry where the function is entered     *)
(* and one where it returns                                               *)
synchronize(s) ==
    Bind(synchronizeLoop(Log([s EXCEPT !.parser.panicMode = FALSE], "synchronize", <<>>)),
         LAMBDA s1 :
    Log(s1, "synchronized",
        [current |-> s1.parser.current.type, previous |-> s1.parser.previous.type]))

(* compiler.c:860: declaration after the declaration or statement *)
declarationEnd(s) == IF s.parser.panicMode THEN synchronize(s) ELSE s

(* the tokens the parser has not consumed: parser.current, unless it is   *)
(* TOKEN_EOF, and those the scanner has not handed out                     *)
Remaining(s) ==
    Len(s.scanner.tokens) - s.scanner.next
        + (IF s.parser.current.type = "TOKEN_EOF" THEN 0 ELSE 1)

(* compiler.c:851; the log keeps the token the call began at and the       *)
(* tokens not consumed before and after it                                 *)
declaration(s) ==
    Bind(CASE check(s, "TOKEN_FUN") -> funDeclaration(match(s, "TOKEN_FUN"))
           [] check(s, "TOKEN_VAR") -> varDeclaration(match(s, "TOKEN_VAR"))
           [] OTHER                 -> statement(s), LAMBDA s1 :
    Bind(declarationEnd(s1), LAMBDA s2 :
    Log(s2, "declaration",
        [current |-> s.parser.current.type,
         before  |-> Remaining(s),
         after   |-> Remaining(s2)])))

(* compiler.c:866 *)
statement(s) ==
    CASE check(s, "TOKEN_PRINT")  -> printStatement(match(s, "TOKEN_PRINT"))
      [] check(s, "TOKEN_FOR")    -> forStatement(match(s, "TOKEN_FOR"))
      [] check(s, "TOKEN_IF")     -> ifStatement(match(s, "TOKEN_IF"))
      [] check(s, "TOKEN_RETURN") -> returnStatement(match(s, "TOKEN_RETURN"))
      [] check(s, "TOKEN_WHILE")  -> whileStatement(match(s, "TOKEN_WHILE"))
      [] check(s, "TOKEN_LEFT_BRACE") ->
             Bind(block(beginScope(match(s, "TOKEN_LEFT_BRACE"))), LAMBDA s1 :
             endScope(s1))
      [] OTHER -> expressionStatement(s)

(* compiler.c:889 *)
grouping(s, canAssign) ==
    Bind(expression(s), LAMBDA s1 :
    consume(s1, "TOKEN_RIGHT_PAREN", "Expect ')' after expression."))

DigitValue ==
    [c \in {"0", "1", "2", "3", "4", "5", "6", "7", "8", "9"} |->
        CASE c = "0" -> 0 [] c = "1" -> 1 [] c = "2" -> 2 [] c = "3" -> 3
          [] c = "4" -> 4 [] c = "5" -> 5 [] c = "6" -> 6 [] c = "7" -> 7
          [] c = "8" -> 8 [] c = "9" -> 9]

(* strtod on the digits at the start of text; the number tokens of the   *)
(* inputs have no fraction                                               *)
RECURSIVE strtodLoop(_, _, _)
strtodLoop(text, i, acc) ==
    IF i <= Len(text) /\ SubSeq(text, i, i) \in DOMAIN DigitValue
    THEN strtodLoop(text, i + 1, acc * 10 + DigitValue[SubSeq(text, i, i)])
    ELSE acc

strtod(text) == strtodLoop(text, 1, 0)

(* compiler.c:897 *)
number(s, canAssign) == emitConstant(s, NUMBER_VAL(strtod(s.parser.previous.start)))

(* compiler.c:905 *)
string(s, canAssign) ==
    Bind(copyString(s.vm, SubSeq(s.parser.previous.start, 2, s.parser.previous.length),
                    s.parser.previous.length - 2), LAMBDA c :
    emitConstant([s EXCEPT !.vm = c.st], OBJ_VAL("string", c.ret)))

(* compiler.c:929-935: the access namedVariable emits once arg, getOp and *)
(* setOp are chosen; r is the call that gave arg                         *)
namedVariableAccess(s, name, canAssign, r, getOp, setOp) ==
    Bind(IF canAssign /\ check(r.st, "TOKEN_EQUAL")
         THEN Bind(expression(match(r.st, "TOKEN_EQUAL")), LAMBDA s1 :
              emitBytes(s1, setOp, r.ret % 256))
         ELSE emitBytes(r.st, getOp, r.ret % 256), LAMBDA s2 :
    Log(s2, "namedVariable",
        [name      |-> name.start,
         frames    |-> [i \in 1..Len(s.compilers) |-> s.compilers[i].locals],
         isSet     |-> canAssign /\ check(r.st, "TOKEN_EQUAL"),
         arg       |-> r.ret,
         constants |-> currentChunk(r.st).constants,
         strings   |-> r.st.vm.heap,
         resolved  |-> SubSeq(r.st.log, Len(s.log) + 1, Len(r.st.log)),
         wasPanic  |-> s.parser.panicMode,
         emitted   |-> SubSeq(currentChunk(s2).code, Len(currentChunk(s2).code) - 1,
                              Len(currentChunk(s2).code))]))

(* compiler.c:914 *)
namedVariable(s, name, canAssign) ==
    Bind(resolveLocal(s, Top(s), name), LAMBDA local :
    IF local.ret # -1
    THEN namedVariableAccess(s, name, canAssign, local, OP_GET_LOCAL, OP_SET_LOCAL)
    ELSE Bind(resolveUpvalue(local.st, Top(s), name), LAMBDA upvalue :
         IF upvalue.ret # -1
         THEN namedVariableAccess(s, name, canAssign, upvalue, OP_GET_UPVALUE, OP_SET_UPVALUE)
         ELSE namedVariableAccess(s, name, canAssign, identifierConstant(upvalue.st, name),
                                  OP_GET_GLOBAL, OP_SET_GLOBAL)))

(* compiler.c:942 *)
variable(s, canAssign) == namedVariable(s, s.parser.previous, canAssign)

(* compiler.c:949.  `TOKEN_BANG:` at line 955 is a statement label, not a *)
(* case label: no value of operatorType selects the statements after it,  *)
(* so TOKEN_BANG takes the default branch.                                *)
unary(s, canAssign) ==
    LET operatorType == s.parser.previous.type
    IN  Bind(parsePrecedence(s, PREC_UNARY), LAMBDA s1 :
        Bind(CASE operatorType = "TOKEN_MINUS" -> emitByte(s1, OP_NEGATE)
               [] OTHER -> s1, LAMBDA s2 :
        Log(s2, "unary",
            [operator |-> operatorType,
             hadError |-> s2.parser.hadError,
             emitted  |-> SubSeq(currentChunk(s2).code, Len(currentChunk(s1).code) + 1,
                                 Len(currentChunk(s2).code))])))

(* a call through a ParseFn pointer *)
CallParseFn(fn, s, canAssign) ==
    CASE fn = "grouping" -> grouping(s, canAssign)
      [] fn = "call"     -> call(s, canAssign)
      [] fn = "unary"    -> unary(s, canAssign)
      [] fn = "binary"   -> binary(s, canAssign)
      [] fn = "variable" -> variable(s, canAssign)
      [] fn = "string"   -> string(s, canAssign)
      [] fn = "number"   -> number(s, canAssign)
      [] fn = "and_"     -> and_(s, canAssign)
      [] fn = "or_"      -> or_(s, canAssign)
      [] fn = "literal"  -> literal(s, canAssign)
      [] OTHER           -> Log(s, "nullCall", s.parser.previous.type)

(* the while of parsePrecedence, compiler.c:1019 *)
RECURSIVE infixLoop(_, _, _)
infixLoop(s, precedence, canAssign) ==
    IF precedence <= getRule(s.parser.current.type).precedence
    THEN Bind(advance(s), LAMBDA s1 :
         Bind(CallParseFn(getRule(s1.parser.previous.type).infix, s1, canAssign), LAMBDA s2 :
         infixLoop(s2, precedence, canAssign)))
    ELSE s

(* what the log keeps of a call of parsePrecedence: the token of the      *)
(* prefix rule and the one behind it, whether the prefix rule was         *)
(* variable() and took an assignment, and whether `=` was the current     *)
(* token after the infix rules                                            *)
Parsed(precedence, s1, s2, s3) ==
    [precedence |-> precedence,
     prefix     |-> s1.parser.previous.type,
     next       |-> s1.parser.current.type,
     isSet      |-> /\ getRule(s1.parser.previous.type).prefix = "variable"
                    /\ s2.log[Len(s2.log)].d.isSet,
     equal      |-> check(s3, "TOKEN_EQUAL")]

(* parsePrecedence with canAssign true at every precedence *)
parsePrecedence_AlwaysAssign(s, precedence) ==
    Bind(advance(s), LAMBDA s1 :
    LET prefixRule == getRule(s1.parser.previous.type).prefix
        canAssign  == TRUE
    IN  IF prefixRule = "NULL"
        THEN error(s1, "Expect expression.")
        ELSE Bind(CallParseFn(prefixRule, s1, canAssign), LAMBDA s2 :
             Bind(infixLoop(s2, precedence, canAssign), LAMBDA s3 :
             Log(IF canAssign /\ check(s3, "TOKEN_EQUAL")
                 THEN error(match(s3, "TOKEN_EQUAL"), "Invalid assignment target.")
                 ELSE s3,
                 "parsePrecedence", Parsed(precedence, s1, s2, s3)))))

(* parsePrecedence that looks at the rule of parser.current before it      *)
(* advances, and reports without advancing when there is no prefix rule    *)
parsePrecedence_PeeksFirst(s, precedence) ==
    IF getRule(s.parser.current.type).prefix = "NULL"
    THEN error(s, "Expect expression.")
    ELSE Bind(advance(s), LAMBDA s1 :
         LET prefixRule == getRule(s1.parser.previous.type).prefix
             canAssign  == precedence <= PREC_ASSIGNMENT
         IN  Bind(CallParseFn(prefixRule, s1, canAssign), LAMBDA s2 :
             Bind(infixLoop(s2, precedence, canAssign), LAMBDA s3 :
             Log(IF canAssign /\ check(s3, "TOKEN_EQUAL")
                 THEN error(match(s3, "TOKEN_EQUAL"), "Invalid assignment target.")
                 ELSE s3,
                 "parsePrecedence", Parsed(precedence, s1, s2, s3)))))

(* compiler.c:1008; the log keeps the calls that found no prefix rule,     *)
(* and those that found one once they return                               *)
parsePrecedence(s, precedence) ==
    Bind(advance(s), LAMBDA s1 :
    LET prefixRule == getRule(s1.parser.previous.type).prefix
        canAssign  == precedence <= PREC_ASSIGNMENT
    IN  IF prefixRule = "NULL"
        THEN Log(error(s1, "Expect expression."), "noPrefix",
                 [precedence |-> precedence, token |-> s1.parser.previous.type])
        ELSE Bind(CallParseFn(prefixRule, s1, canAssign), LAMBDA s2 :
             Bind(infixLoop(s2, precedence, canAssign), LAMBDA s3 :
             Log(IF canAssign /\ check(s3, "TOKEN_EQUAL")
                 THEN error(match(s3, "TOKEN_EQUAL"), "Invalid assignment target.")
                 ELSE s3,
                 "parsePrecedence", Parsed(precedence, s1, s2, s3)))))

(* the while of compile, compiler.c:1048 *)
RECURSIVE compileLoop(_)
compileLoop(s) ==
    IF ~check(s, "TOKEN_EOF")
    THEN Bind(declaration(s), LAMBDA s1 : compileLoop(s1))
    ELSE match(s, "TOKEN_EOF")

(* compile without the two assignments of compiler.c:1043-1044 *)
compile_KeepsFlags(src, p, v) ==
    Bind(compileLoop(advance(initCompiler(
             [scanner |-> [tokens |-> src, next |-> 0],
              parser |-> p, compilers |-> <<>>, vm |-> v, log |-> <<>>],
             "TYPE_SCRIPT"))), LAMBDA s1 :
    Bind(endCompiler(s1), LAMBDA e :
    [st  |-> e.st,
     ret |-> [null |-> e.st.parser.hadError, function |-> e.ret]]))

(* compiler.c:1039-1046: compile up to its while *)
compileBegin(src, p, v) ==
    advance([initCompiler(
                 [scanner |-> [tokens |-> src, next |-> 0],       \* initScanner
                  parser |-> p, compilers |-> <<>>, vm |-> v, log |-> <<>>],
                 "TYPE_SCRIPT")
             EXCEPT !.parser.hadError = FALSE, !.parser.panicMode = FALSE])

(* compiler.c:1052-1054: compile after its while *)
compileEnd(s1) ==
    Bind(endCompiler(s1), LAMBDA e :
    [st  |-> e.st,
     ret |-> [null |-> e.st.parser.hadError, function |-> e.ret]])

(* compiler.c:1038: compile(source) called in the state (parser, vm).     *)
(* The result is NULL when ret.null holds; ret.function is the script     *)
(* function endCompiler returned in either case.                          *)
compile(src, p, v) == compileEnd(compileLoop(compileBegin(src, p, v)))

(* ========================== the state machine ========================== *)
(* source   the pieces of the text handed to the next compile()           *)
(* phase    "edit" while the text is put together, "compiled" after       *)
(*          compile() has returned                                        *)
(* scanner  Scanner scanner (scanner.c:16), for the runs of the scanner    *)
(*          on its own                                                    *)
(* parser   Parser parser, which lives on between two calls of compile()  *)
(* current  the chain of compilers (compiler.c:96) a single function of   *)
(*          the compiler is applied to; empty (NULL) outside the calls of *)
(*          compile()                                                     *)
(* vm       VM vm, likewise                                               *)
(* result   what the last compile() returned                              *)
(* log      what the last compile() did and printed                       *)
(* calls    what the earlier compile() calls returned and the flags they  *)
(*          left in parser                                                *)

(* static storage is zero: token type 0 is TOKEN_LEFT_PAREN (scanner.h:11) *)
ZeroToken == [type |-> "TOKEN_LEFT_PAREN", start |-> "", length |-> 0]

NoResult == [null |-> TRUE, function |-> newFunction]

Init ==
    /\ source = <<>>
    /\ phase = "edit"
    /\ scanner = [source |-> "", start |-> 0, current |-> 0, line |-> 0, reach |-> -1]
    /\ current = <<>>
    /\ parser = [current |-> ZeroToken, previous |-> ZeroToken,
                 hadError |-> FALSE, panicMode |-> FALSE]
    /\ vm = initVM
    /\ result = NoResult
    /\ log = <<>>
    /\ calls = <<>>

(* the text of the pieces one after the other *)
RECURSIVE Join(_)
Join(pieces) == IF pieces = <<>> THEN <<>> ELSE Head(pieces) \o Join(Tail(pieces))

(* the driver appends a piece of text, at most maxPieces of them *)
Type(piece, maxPieces) ==
    /\ phase = "edit"
    /\ Len(source) < maxPieces
    /\ source' = Append(source, piece)
    /\ UNCHANGED <<phase, scanner, parser, current, vm, result, log, calls>>

(* the driver calls compile(source) *)
Compile ==
    /\ phase = "edit"
    /\ \E r \in {compile(Join(source), parser, vm)} :
           /\ parser' = r.st.parser
           /\ vm' = r.st.vm
           /\ result' = r.ret
           /\ log' = r.st.log
    /\ phase' = "compiled"
    /\ UNCHANGED <<source, scanner, current, calls>>

(* the driver starts on the next text (the REPL's next line) *)
Again(maxRuns) ==
    /\ phase = "compiled"
    /\ Len(calls) + 1 < maxRuns
    /\ phase' = "edit"
    /\ source' = <<>>
    /\ result' = NoResult
    /\ log' = <<>>
    /\ calls' = Append(calls, [null |-> result.null, hadError |-> parser.hadError,
                               panicMode |-> parser.panicMode])
    /\ UNCHANGED <<scanner, parser, current, vm>>

(* ---- error handling: arbitrary short token sequences, two compiles ---- *)
MaxErrPieces == 3

MaxErrRuns == 2

ErrPieces ==
    { <<Ident("a")>>, <<T("TOKEN_SEMICOLON")>>, <<T("TOKEN_PLUS")>>,
      <<T("TOKEN_VAR")>>, <<T("TOKEN_EQUAL")>>, <<T("TOKEN_LEFT_BRACE")>>,
      <<T("TOKEN_RIGHT_BRACE")>>, <<ErrorToken>> }

TypeErr == \E piece \in ErrPieces : Type(piece, MaxErrPieces)

AgainErr == Again(MaxErrRuns)

NextErr == TypeErr \/ Compile \/ AgainErr

SpecErr == Init /\ [][NextErr]_vars

(* ============================== claims ================================= *)
(* the entries of the log that record ev *)
Events(ev) == {i \in 1..Len(log) : log[i].ev = ev}

Reports == Events("report")

(* C1: compile returns NULL exactly when an error was reported during     *)
(* that call, whatever flags an earlier call left in parser.              *)
C1_NullIffReported ==
    phase = "compiled" => (result.null <=> Reports # {})

(* a second compile that succeeds after a first one that failed and       *)
(* ended in panic mode                                                    *)
C1_Witness ==
    /\ phase = "compiled"
    /\ Len(calls) = 1 /\ calls[1].null /\ calls[1].hadError /\ calls[1].panicMode
    /\ Len(source) > 0
    /\ ~result.null /\ Reports = {}

(* C2: after a reported error nothing is reported, and panicMode stays    *)
(* true, at every point up to the next synchronize().                     *)
C2_PanicSuppression ==
    \A i \in Reports : \A j \in (i + 1)..Len(log) :
        (\A k \in (i + 1)..j : log[k].ev # "synchronize")
            => (log[j].ev # "report" /\ log[j].panic)

(* report, a suppressed error, synchronize, and a second report *)
C2_Witness ==
    \E i, j, k, l \in 1..Len(log) :
        /\ i < j /\ j < k /\ k < l
        /\ log[i].ev = "report" /\ log[j].ev = "suppressed"
        /\ log[k].ev = "synchronize" /\ log[l].ev = "report"

(* ---- scopes and closures: programs put together from statements ------- *)
MaxScopePieces == 5

FunF == <<T("TOKEN_FUN"), Ident("f"), T("TOKEN_LEFT_PAREN"), Ident("b"),
          T("TOKEN_RIGHT_PAREN"), T("TOKEN_LEFT_BRACE")>>

FunG == <<T("TOKEN_FUN"), Ident("g"), T("TOKEN_LEFT_PAREN"),
          T("TOKEN_RIGHT_PAREN"), T("TOKEN_LEFT_BRACE")>>

ScopePieces ==
    { FunF,                                                  \* fun f(b) {
      FunG,                                                  \* fun g() {
      <<T("TOKEN_VAR"), Ident("a"), T("TOKEN_SEMICOLON")>>,  \* var a;
      <<Ident("b"), T("TOKEN_SEMICOLON")>>,                  \* b;
      <<Ident("a"), T("TOKEN_EQUAL"), Ident("b"), T("TOKEN_SEMICOLON")>>,  \* a = b;
      <<T("TOKEN_LEFT_BRACE")>>,
      <<T("TOKEN_RIGHT_BRACE")>> }

TypeScope == \E piece \in ScopePieces : Type(piece, MaxScopePieces)

NextScope == TypeScope \/ Compile

SpecScope == Init /\ [][NextScope]_vars

(* the locals a scope's end removes, innermost first *)
Removed(d) == [k \in 1..(Len(d.before) - Len(d.after)) |-> d.before[Len(d.before) + 1 - k]]

(* C3: endScope emits exactly one instruction per local it removes,       *)
(* OP_CLOSE_UPVALUE for a captured local and OP_POP otherwise, and it     *)
(* removes exactly the locals deeper than the decremented scopeDepth.     *)
C3_OneInstructionPerLocal ==
    \A i \in Events("endScope") :
        LET d == log[i].d
        IN  /\ d.after = SubSeq(d.before, 1, Len(d.after))
            /\ \A k \in 1..Len(d.before) : (k > Len(d.after)) <=> (d.before[k].depth > d.depth)
            /\ d.emitted = [k \in 1..Len(Removed(d)) |->
                               IF Removed(d)[k].isCaptured THEN OP_CLOSE_UPVALUE ELSE OP_POP]

(* the positions of the locals called name in a function's locals *)
Named(locals, name) == {k \in 1..Len(locals) : locals[k].name.start = name}

Highest(S) == CHOOSE k \in S : \A l \in S : l <= k

(* C6: a name is a local of the current function (the one declared last) *)
(* before it is an upvalue, and an upvalue before it is a global.         *)
C6_ResolutionOrder ==
    \A i \in Events("namedVariable") :
        LET d     == log[i].d
            top   == Len(d.frames)
            mine  == Named(d.frames[top], d.name)
            outer == {l \in 1..(top - 1) : Named(d.frames[l], d.name) # {}}
        IN  IF mine # {}
            THEN d.emitted = <<IF d.isSet THEN OP_SET_LOCAL ELSE OP_GET_LOCAL,
                               Highest(mine) - 1>>
            ELSE IF outer # {}
            THEN d.emitted[1] = IF d.isSet THEN OP_SET_UPVALUE ELSE OP_GET_UPVALUE
            ELSE /\ d.emitted[1] = IF d.isSet THEN OP_SET_GLOBAL ELSE OP_GET_GLOBAL
                 /\ d.constants[d.emitted[2] + 1].kind = "string"
                 /\ d.strings[d.constants[d.emitted[2] + 1].val].chars = d.name

(* a program without errors in which a parameter hides the parameter of   *)
(* the enclosing function                                                 *)
C6_Witness ==
    /\ phase = "compiled" /\ ~result.null
    /\ \E i \in Events("namedVariable") :
           /\ Named(log[i].d.frames[Len(log[i].d.frames)], log[i].d.name) # {}
           /\ \E l \in 1..(Len(log[i].d.frames) - 1) :
                  Named(log[i].d.frames[l], log[i].d.name) # {}

(* C8: the OP_CLOSURE of a function is followed by exactly upvalueCount   *)
(* pairs (is_local, index), the i-th pair being entry i of the upvalue    *)
(* array of that function's compiler.                                     *)
C8_ClosureOperands ==
    \A i \in Events("closure") :
        LET d == log[i].d
            n == d.function.upvalueCount
        IN  /\ Len(d.emitted) = 2 + 2 * n
            /\ d.emitted[1] = OP_CLOSURE
            /\ d.constants[d.emitted[2] + 1] = OBJ_VAL("function", d.function)
            /\ \A k \in 1..n :
                   /\ d.emitted[2 * k + 1] = (IF d.upvalues[k].isLocal THEN 1 ELSE 0)
                   /\ d.emitted[2 * k + 2] = d.upvalues[k].index

(* a program compiled without error in which a function captures a       *)
(* variable                                                               *)
C8_Witness ==
    /\ phase = "compiled" /\ ~result.null
    /\ \E i \in Events("closure") : log[i].d.function.upvalueCount > 0

Pair(index, isLocal) == [index |-> index, isLocal |-> isLocal]

(* C9: a name found among the locals of the enclosing function marks     *)
(* that local captured and gives the entry (slot, isLocal); one found     *)
(* through an upvalue of the enclosing function gives (that upvalue's     *)
(* index, not isLocal).  The entries below upvalueCount hold no pair      *)
(* twice, and a pair already there is answered with its index and leaves  *)
(* upvalueCount as it is.                                                 *)
C9_UpvalueResolution ==
    /\ \A i \in Events("resolveUpvalue") :
           LET d == log[i].d
           IN  IF d.via = "local"
               THEN /\ d.entry = Pair(d.found, TRUE)
                    /\ d.enclosing[d.found + 1].name.start = d.name
                    /\ d.enclosing[d.found + 1].isCaptured
               ELSE d.entry = Pair(d.found, FALSE)
    /\ \A i \in Events("addUpvalue") :
           LET d == log[i].d
           IN  /\ \A k, l \in 1..Len(d.new) : d.new[k] = d.new[l] => k = l
               /\ \A k \in 1..Len(d.old) :
                      d.old[k] = Pair(d.index, d.isLocal) => d.ret = k - 1 /\ d.new = d.old

(* a captured variable that is resolved a second time, in a function two  *)
(* levels below the one that declares it                                  *)
C9_Witness ==
    /\ \E i \in Events("resolveUpvalue") : log[i].d.via = "upvalue"
    /\ \E i \in Events("addUpvalue") :
           /\ ~log[i].d.isLocal
           /\ \E k \in 1..Len(log[i].d.old) :
                  log[i].d.old[k] = Pair(log[i].d.index, log[i].d.isLocal)

(* ---- initialisers: variables declared with and without a use of their -- *)
(* ---- own name                                                          *)
MaxInitPieces == 5

InitPieces ==
    { <<T("TOKEN_LEFT_BRACE")>>,
      <<T("TOKEN_RIGHT_BRACE")>>,
      <<T("TOKEN_VAR"), Ident("a"), T("TOKEN_EQUAL"), Num("1"),
        T("TOKEN_SEMICOLON")>>,                                  \* var a = 1;
      <<T("TOKEN_VAR"), Ident("a"), T("TOKEN_EQUAL"), Ident("a"),
        T("TOKEN_PLUS"), Num("2"), T("TOKEN_SEMICOLON")>>,       \* var a = a + 2;
      <<T("TOKEN_PRINT"), Ident("a"), T("TOKEN_SEMICOLON")>> }   \* print a;

TypeInit == \E piece \in InitPieces : Type(piece, MaxInitPieces)

NextInit == TypeInit \/ Compile

SpecInit == Init /\ [][NextInit]_vars

SelfRead == "Can't read local variable in its own initializer."

(* the uses of a name that find the local of that name not yet initialised *)
OwnInitialiser ==
    {i \in Events("namedVariable") :
        LET locals == log[i].d.frames[Len(log[i].d.frames)]
        IN  /\ Named(locals, log[i].d.name) # {}
            /\ locals[Highest(Named(locals, log[i].d.name))].depth = -1}

(* what namedVariable i printed, or would have printed outside panic mode *)
Said(i, ev, message) ==
    \E j \in 1..Len(log[i].d.resolved) :
        log[i].d.resolved[j].ev = ev /\ log[i].d.resolved[j].d = message

DepthSetAfterInitialiser ==
    \A i \in Events("varDeclaration") :
        log[i].d.added => log[i].d.during = -1 /\ log[i].d.after = log[i].d.scope

(* C7 as stated: a local gets its depth after its initialiser, and every  *)
(* use of its name in the initialiser reports the error and makes         *)
(* compile return NULL.                                                   *)
C7_SelfReadReported ==
    /\ DepthSetAfterInitialiser
    /\ \A i \in OwnInitialiser : Said(i, "report", SelfRead) /\ result.null

(* C7: a local gets its depth after its initialiser; a use of its name in *)
(* the initialiser calls error() with the message, which is printed       *)
(* unless the parser is in panic mode already, and compile returns NULL.  *)
C7_SelfReadIsError ==
    /\ DepthSetAfterInitialiser
    /\ \A i \in OwnInitialiser :
           /\ Said(i, IF log[i].d.wasPanic THEN "suppressed" ELSE "report", SelfRead)
           /\ result.null

(* var a = 1; { var a = a + 2; print a; } *)
C7_Witness ==
    /\ phase = "compiled" /\ result.null
    /\ \E i \in OwnInitialiser :
           /\ Said(i, "report", SelfRead)
           /\ Len(log[i].d.frames[1]) = 2
           /\ \E j \in Events("varDeclaration") :
                  j < i /\ log[j].d.scope = 0 /\ log[j].d.name = log[i].d.name
    /\ \E i \in Events("endScope") : Len(log[i].d.before) = 2

(* ---- control flow: if statements over print statements ---------------- *)
MaxCtlPieces == 4

CtlPieces ==
    { <<T("TOKEN_IF"), T("TOKEN_LEFT_PAREN"), Ident("a"),
        T("TOKEN_RIGHT_PAREN")>>,                                 \* if (a)
      <<T("TOKEN_ELSE")>>,
      <<T("TOKEN_PRINT"), Num("1"), T("TOKEN_SEMICOLON")>>,       \* print 1;
      <<T("TOKEN_PRINT"), T("TOKEN_BANG"), Ident("a"),
        T("TOKEN_SEMICOLON")>>,                                   \* print !a;
      <<T("TOKEN_PRINT"), T("TOKEN_MINUS"), Ident("a"),
        T("TOKEN_SEMICOLON")>>,                                   \* print -a;
      <<T("TOKEN_LEFT_BRACE")>>,
      <<T("TOKEN_RIGHT_BRACE")>> }

TypeCtl == \E piece \in CtlPieces : Type(piece, MaxCtlPieces)

NextCtl == TypeCtl \/ Compile

SpecCtl == Init /\ [][NextCtl]_vars

(* The instructions of the table of opcodes in the specification of the   *)
(* virtual machine: how many operand bytes follow the opcode, and by how   *)
(* much the instruction changes the height of the stack.                  *)
Operands(op) ==
    CASE op \in {OP_JUMP, OP_JUMP_IF_FALSE, OP_LOOP} -> 2
      [] op \in {OP_CONSTANT, OP_GET_LOCAL, OP_SET_LOCAL, OP_GET_GLOBAL,
                 OP_SET_GLOBAL, OP_DEFINE_GLOBAL, OP_GET_UPVALUE,
                 OP_SET_UPVALUE, OP_CALL} -> 1
      [] OTHER -> 0

Effect(op) ==
    CASE op \in {OP_CONSTANT, OP_NIL, OP_TRUE, OP_FALSE, OP_GET_LOCAL,
                 OP_GET_GLOBAL, OP_GET_UPVALUE} -> 1
      [] op \in {OP_POP, OP_PRINT, OP_DEFINE_GLOBAL, OP_EQUAL, OP_GREATER,
                 OP_LESS, OP_ADD, OP_SUBTRACT, OP_MULTIPLY, OP_DIVIDE,
                 OP_CLOSE_UPVALUE} -> -1
      [] OTHER -> 0

(* where the jump at pc goes when it is taken *)
Target(code, pc) == pc + 3 + code[pc + 2] * 256 + code[pc + 3]

(* the heights the stack can have at the end of code when the run is at   *)
(* pc with height h: OP_JUMP_IF_FALSE goes either way and pops nothing    *)
RECURSIVE Heights(_, _, _)
Heights(code, pc, h) ==
    IF pc >= Len(code) THEN {h}
    ELSE CASE code[pc + 1] = OP_JUMP -> Heights(code, Target(code, pc), h)
           [] code[pc + 1] = OP_JUMP_IF_FALSE ->
                  Heights(code, pc + 3, h) \cup Heights(code, Target(code, pc), h)
           [] OTHER -> Heights(code, pc + 1 + Operands(code[pc + 1]),
                               h + Effect(code[pc + 1]))

(* the position of the first OP_JUMP_IF_FALSE at or after pc *)
RECURSIVE FirstTest(_, _)
FirstTest(code, pc) ==
    IF code[pc + 1] = OP_JUMP_IF_FALSE THEN pc
    ELSE FirstTest(code, pc + 1 + Operands(code[pc + 1]))

(* C4: the condition of an if statement is popped once when it is true    *)
(* and once when it is false, so that the statement leaves the stack as   *)
(* high as it was before the condition: with the condition on the stack   *)
(* (height 1) at the test, either way ends at height 0.                    *)
C4_IfPopsOncePerPath ==
    (phase = "compiled" /\ ~result.null) =>
        \A i \in Events("if") :
            LET code == SubSeq(log[i].d.code, log[i].d.from + 1, Len(log[i].d.code))
                test == FirstTest(code, 0)
            IN  /\ Heights(code, test + 3, 1) = {0}
                /\ Heights(code, Target(code, test), 1) = {0}

(* C5: after the code of its operand, `!` emits OP_NOT and `-` emits      *)
(* OP_NEGATE, and nothing else.                                           *)
C5_UnaryOpcode ==
    \A i \in Events("unary") :
        log[i].d.emitted = <<IF log[i].d.operator = "TOKEN_BANG" THEN OP_NOT ELSE OP_NEGATE>>

(* ---- strings: calls of copyString and takeString ---------------------- *)
MaxStrCalls == 3

(* the buffers handed to copyString, which copies the first length bytes *)
CopyBuffers == {"a", "b", "ab"}

(* the heap blocks handed to takeString, length bytes and the '\0' *)
TakeBuffers == {"", "a", "b", "ab"}

Called(name, chars, length, r) ==
    /\ phase = "edit"
    /\ Len(log) < MaxStrCalls
    /\ vm' = r.st
    /\ log' = Append(log, [ev |-> name, panic |-> FALSE,
                           d |-> [chars |-> SubSeq(chars, 1, length), ret |-> r.ret,
                                  before |-> vm, after |-> r.st]])
    /\ UNCHANGED <<source, phase, scanner, parser, current, result, calls>>

CopyString ==
    \E chars \in CopyBuffers : \E length \in 0..Len(chars) :
        Called("copyString", chars, length, copyString(vm, chars, length))

TakeString ==
    \E chars \in TakeBuffers :
        Called("takeString", chars, Len(chars), takeString(vm, chars, Len(chars)))

NextStr == CopyString \/ TakeString

SpecStr == Init /\ [][NextStr]_vars

ObjStrings == {o \in 1..Len(vm.heap) : vm.heap[o].type = "OBJ_STRING"}

(* C10: no two string objects have the same length and bytes, every       *)
(* string object is a key of vm.strings, and a second copyString of the   *)
(* same bytes returns the object of the first and allocates nothing.      *)
C10_Interning ==
    /\ \A o, q \in ObjStrings :
           (/\ vm.heap[o].length = vm.heap[q].length
            /\ SubSeq(vm.heap[o].chars, 1, vm.heap[o].length)
                   = SubSeq(vm.heap[q].chars, 1, vm.heap[q].length)) => o = q
    /\ \A o \in ObjStrings : \E i \in 1..Len(vm.strings) : vm.strings[i].key = o
    /\ \A i, j \in Events("copyString") :
           (i < j /\ log[i].d.chars = log[j].d.chars) =>
               /\ log[j].d.ret = log[i].d.ret
               /\ log[j].d.after.allocs = log[j].d.before.allocs
               /\ log[j].d.after.heap = log[j].d.before.heap

(* the same bytes copied from two different buffers, and then taken: one  *)
(* object, and the block handed to takeString is released                 *)
C10_Witness ==
    \E i, j, k \in 1..Len(log) :
        /\ i < j /\ j < k
        /\ log[i].ev = "copyString" /\ log[j].ev = "copyString" /\ log[k].ev = "takeString"
        /\ log[i].d.chars = "a" /\ log[j].d.chars = "a" /\ log[k].d.chars = "a"
        /\ log[j].d.ret = log[i].d.ret /\ log[k].d.ret = log[i].d.ret
        /\ log[k].d.after.frees = log[k].d.before.frees + 1
        /\ Cardinality(ObjStrings) = 1

(* ============================ scanner.c ================================ *)
(* Scanner scanner (scanner.c:10) is the record sc:                        *)
(*   sc.source   the text handed to initScanner, without its final '\0'    *)
(*   sc.start, sc.current   offsets into the text (the C pointers minus    *)
(*               source)                                                   *)
(*   sc.line     the line counter                                          *)
(*   sc.reach    the highest offset a character was read at, -1 when none  *)
(*               was read (kept for the checks, not in the C struct)       *)
(* A function that moves the scanner and returns a value returns           *)
(* [st |-> scanner, ret |-> value].  advance, match, string, number and    *)
(* scanToken of scanner.c carry the prefix `scanner` here, the plain       *)
(* names being those of compiler.c; the compiler's scanToken above reads   *)
(* the tokens this scanner has produced.                                   *)

(* '\0', the character that terminates the text *)
NUL == ""

(* source[i] *)
CharAt(text, i) == IF i < Len(text) THEN SubSeq(text, i + 1, i + 1) ELSE NUL

(* scanner.c:243 *)
initScanner(text) == [source |-> text, start |-> 0, current |-> 0, line |-> 1, reach |-> -1]

(* a read of source[i] *)
Touch(sc, i) == [sc EXCEPT !.reach = IF i > @ THEN i ELSE @]

(* scanner.c:24 *)
isAtEnd(sc) == CharAt(sc.source, sc.current) = NUL

(* scanner.c:32 *)
scannerAdvance(sc) ==
    [st  |-> Touch([sc EXCEPT !.current = @ + 1], sc.current),
     ret |-> CharAt(sc.source, sc.current)]

(* scanner.c:41 *)
peek(sc) == CharAt(sc.source, sc.current)

(* scanner.c:49 *)
peekNext(sc) == IF isAtEnd(sc) THEN NUL ELSE CharAt(sc.source, sc.current + 1)

(* the scanner after a call of peekNext: it has read *current, and        *)
(* current[1] where *current is not '\0'                                   *)
peekedNext(sc) == Touch(sc, IF isAtEnd(sc) THEN sc.current ELSE sc.current + 1)

(* scanner.c:60 *)
scannerMatch(sc, expected) ==
    CASE isAtEnd(sc) -> [st |-> Touch(sc, sc.current), ret |-> FALSE]
      [] peek(sc) # expected -> [st |-> Touch(sc, sc.current), ret |-> FALSE]
      [] OTHER -> [st |-> Touch([sc EXCEPT !.current = @ + 1], sc.current), ret |-> TRUE]

(* scanner.c:72; token.line is only ever printed and is left out of Token *)
makeToken(sc, type) == Token(type, SubSeq(sc.source, sc.start + 1, sc.current))

(* scanner.c:86 *)
errorToken(sc, message) == Token("TOKEN_ERROR", message)

(* the while of the comment case, scanner.c:113 *)
RECURSIVE skipComment(_)
skipComment(sc) ==
    IF peek(sc) # "\n" /\ ~isAtEnd(sc)
    THEN skipComment(scannerAdvance(sc).st)
    ELSE Touch(sc, sc.current)

(* scanner.c:98 *)
RECURSIVE skipWhitespace(_)
skipWhitespace(sc) ==
    CASE peek(sc) \in {" ", "\r", "\t"} -> skipWhitespace(scannerAdvance(sc).st)
      [] peek(sc) = "\n" ->
             skipWhitespace(scannerAdvance([sc EXCEPT !.line = @ + 1]).st)
      [] peek(sc) = "/" ->
             IF peekNext(sc) = "/" THEN skipWhitespace(skipComment(peekedNext(sc)))
             ELSE peekedNext(sc)
      [] OTHER -> Touch(sc, sc.current)

(* scanner.c:129: c >= '0' & c <= '9', the & of two values that are 0 or 1 *)
isDigit(c) == c \in {"0", "1", "2", "3", "4", "5", "6", "7", "8", "9"}

(* scanner.c:138 *)
isAlpha(c) ==
    \/ c \in {"a", "b", "c", "d", "e", "f", "g", "h", "i", "j", "k", "l", "m",
              "n", "o", "p", "q", "r", "s", "t", "u", "v", "w", "x", "y", "z"}
    \/ c \in {"A", "B", "C", "D", "E", "F", "G", "H", "I", "J", "K", "L", "M",
              "N", "O", "P", "Q", "R", "S", "T", "U", "V", "W", "X", "Y", "Z"}
    \/ c = "_"

(* scanner.c:152; read is the highest offset the call reads at: memcmp   *)
(* is reached when the lengths agree and reads up to length characters,  *)
(* -1 when it is not reached                                              *)
checkKeyword(sc, start, length, rest, type) ==
    [ret  |-> IF /\ sc.current - sc.start = start + length
                 /\ SubSeq(sc.source, sc.start + start + 1, sc.start + start + length) = rest
              THEN type
              ELSE "TOKEN_IDENTIFIER",
     read |-> IF sc.current - sc.start = start + length
              THEN sc.start + start + length - 1
              ELSE -1]

(* The value of a call that reaches the closing brace of a function       *)
(* declared to return a TokenType without a return statement: any value   *)
(* of the type.                                                           *)
Indeterminate == DOMAIN rules

(* scanner.c:165: the token types the call can return, each with the      *)
(* highest offset read at: scanner.start[0], scanner.start[1] in case 'f' *)
(* and case 't' of a lexeme longer than one character, and the reads of   *)
(* checkKeyword.  After the break of case 'f' and of case 't' control     *)
(* leaves the outer switch and reaches the end of the function            *)
(* (scanner.c:198).                                                       *)
identifierType(sc) ==
    LET c0   == CharAt(sc.source, sc.start)
        c1   == CharAt(sc.source, sc.start + 1)
        long == sc.current - sc.start > 1
        switch == IF c0 \in {"f", "t"} /\ long THEN sc.start + 1 ELSE sc.start
        kw(start, length, rest, type) ==
            LET r == checkKeyword(sc, start, length, rest, type)
            IN  [ret |-> r.ret, read |-> IF r.read > switch THEN r.read ELSE switch]
    IN  CASE c0 = "a" -> {kw(1, 2, "nd", "TOKEN_AND")}
          [] c0 = "c" -> {kw(1, 4, "lass", "TOKEN_CLASS")}
          [] c0 = "e" -> {kw(1, 3, "lse", "TOKEN_ELSE")}
          [] c0 = "f" ->
                 CASE long /\ c1 = "a" -> {kw(2, 3, "lse", "TOKEN_FALSE")}
                   [] long /\ c1 = "o" -> {kw(2, 1, "r", "TOKEN_FOR")}
                   [] long /\ c1 = "u" -> {kw(2, 1, "n", "TOKEN_FUN")}
                   [] OTHER -> {[ret |-> type, read |-> switch] : type \in Indeterminate}
          [] c0 = "i" -> {kw(1, 1, "f", "TOKEN_IF")}
          [] c0 = "n" -> {kw(1, 2, "il", "TOKEN_NIL")}
          [] c0 = "o" -> {kw(1, 1, "r", "TOKEN_OR")}
          [] c0 = "p" -> {kw(1, 4, "rint", "TOKEN_PRINT")}
          [] c0 = "r" -> {kw(1, 5, "eturn", "TOKEN_RETURN")}
          [] c0 = "s" -> {kw(1, 4, "uper", "TOKEN_SUPER")}
          [] c0 = "t" ->
                 CASE long /\ c1 = "h" -> {kw(2, 2, "is", "TOKEN_THIS")}
                   [] long /\ c1 = "r" -> {kw(2, 2, "ue", "TOKEN_TRUE")}
                   [] OTHER -> {[ret |-> type, read |-> switch] : type \in Indeterminate}
          [] c0 = "v" -> {kw(1, 2, "ar", "TOKEN_VAR")}
          [] c0 = "w" -> {kw(1, 4, "hile", "TOKEN_WHILE")}
          [] OTHER -> {[ret |-> "TOKEN_IDENTIFIER", read |-> switch]}

(* the while of identifier, scanner.c:205 *)
RECURSIVE identifierLoop(_)
identifierLoop(sc) ==
    IF isAlpha(peek(sc)) \/ isDigit(peek(sc))
    THEN identifierLoop(scannerAdvance(sc).st)
    ELSE Touch(sc, sc.current)

(* scanner.c:204: the results the call can have *)
identifier(sc) ==
    {[st  |-> Touch(identifierLoop(sc), type.read),
      ret |-> makeToken(identifierLoop(sc), type.ret)] :
         type \in identifierType(identifierLoop(sc))}

(* the while of string, scanner.c:214 *)
RECURSIVE scannerStringLoop(_)
scannerStringLoop(sc) ==
    IF peek(sc) # "\"" /\ ~isAtEnd(sc)
    THEN scannerStringLoop(scannerAdvance(
             IF peek(sc) = "\n" THEN [sc EXCEPT !.line = @ + 1] ELSE sc).st)
    ELSE Touch(sc, sc.current)

(* scanner.c:213 *)
scannerString(sc) ==
    LET s1 == scannerStringLoop(sc)
    IN  IF isAtEnd(s1)
        THEN [st |-> s1, ret |-> errorToken(s1, "Unterminated string.")]
        ELSE [st  |-> scannerAdvance(s1).st,
              ret |-> makeToken(scannerAdvance(s1).st, "TOKEN_STRING")]

(* the two while loops of number, scanner.c:230 and 235 *)
RECURSIVE digitsLoop(_)
digitsLoop(sc) ==
    IF isDigit(peek(sc)) THEN digitsLoop(scannerAdvance(sc).st) ELSE Touch(sc, sc.current)

(* scanner.c:229 *)
scannerNumber(sc) ==
    LET s1 == digitsLoop(sc)
        s2 == IF peek(s1) = "." /\ isDigit(peekNext(s1))
              THEN digitsLoop(scannerAdvance(peekedNext(s1)).st)
              ELSE IF peek(s1) = "." THEN peekedNext(s1) ELSE s1
    IN  [st |-> s2, ret |-> makeToken(s2, "TOKEN_NUMBER")]

(* the cases of scanToken that make a token of one character, scanner.c:261 *)
OneChar ==
    [c \in {"(", ")", "{", "}", ";", ",", ".", "-", "+", "/", "*"} |->
        CASE c = "(" -> "TOKEN_LEFT_PAREN"  [] c = ")" -> "TOKEN_RIGHT_PAREN"
          [] c = "{" -> "TOKEN_LEFT_BRACE"  [] c = "}" -> "TOKEN_RIGHT_BRACE"
          [] c = ";" -> "TOKEN_SEMICOLON"   [] c = "," -> "TOKEN_COMMA"
          [] c = "." -> "TOKEN_DOT"         [] c = "-" -> "TOKEN_MINUS"
          [] c = "+" -> "TOKEN_PLUS"        [] c = "/" -> "TOKEN_SLASH"
          [] c = "*" -> "TOKEN_STAR"]

(* the cases with match('='), scanner.c:272 *)
TwoChar ==
    [c \in {"!", "=", "<", ">"} |->
        CASE c = "!" -> <<"TOKEN_BANG_EQUAL", "TOKEN_BANG">>
          [] c = "=" -> <<"TOKEN_EQUAL_EQUAL", "TOKEN_EQUAL">>
          [] c = "<" -> <<"TOKEN_LESS_EQUAL", "TOKEN_LESS">>
          [] c = ">" -> <<"TOKEN_GREATER_EQUAL", "TOKEN_GREATER">>]

(* scanToken without the test for the end of the text before advance()   *)
scannerScanToken_NoEndTest(sc) ==
    LET s0 == skipWhitespace(sc)
        s1 == [s0 EXCEPT !.start = s0.current]
        c  == scannerAdvance(s1).ret
        s2 == scannerAdvance(s1).st
        eq == scannerMatch(s2, "=")
    IN  CASE isAlpha(c) -> identifier(s2)
          [] isDigit(c) -> {scannerNumber(s2)}
          [] c \in DOMAIN OneChar -> {[st |-> s2, ret |-> makeToken(s2, OneChar[c])]}
          [] c \in DOMAIN TwoChar ->
                 {[st  |-> eq.st,
                   ret |-> makeToken(eq.st, IF eq.ret THEN TwoChar[c][1] ELSE TwoChar[c][2])]}
          [] c = "\"" -> {scannerString(s2)}
          [] OTHER -> {[st |-> s2, ret |-> errorToken(s2, "Unexpected character.")]}

(* scanner.c:249: the results the call can have, more than one only where *)
(* identifierType returns no value                                        *)
scannerScanToken(sc) ==
    LET s0 == skipWhitespace(sc)
        s1 == [s0 EXCEPT !.start = s0.current]
        c  == scannerAdvance(s1).ret
        s2 == scannerAdvance(s1).st
        eq == scannerMatch(s2, "=")
    IN  CASE isAtEnd(s1) -> {[st  |-> Touch(s1, s1.current),
                              ret |-> makeToken(s1, "TOKEN_EOF")]}
          [] isAlpha(c) -> identifier(s2)
          [] isDigit(c) -> {scannerNumber(s2)}
          [] c \in DOMAIN OneChar -> {[st |-> s2, ret |-> makeToken(s2, OneChar[c])]}
          [] c \in DOMAIN TwoChar ->
                 {[st  |-> eq.st,
                   ret |-> makeToken(eq.st, IF eq.ret THEN TwoChar[c][1] ELSE TwoChar[c][2])]}
          [] c = "\"" -> {scannerString(s2)}
          [] OTHER -> {[st |-> s2, ret |-> errorToken(s2, "Unexpected character.")]}

(* ---- the scanner on its own: texts put together from pieces ----------- *)
MaxScanPieces == 3

MaxScanCalls == 5

(* the text of the pieces one after the other *)
RECURSIVE JoinText(_)
JoinText(pieces) == IF pieces = <<>> THEN "" ELSE Head(pieces) \o JoinText(Tail(pieces))

ScanPieces == {"a", "f", "1", ".", "\"", "@", " ", "\n", "/", ";", "="}

TypeScan == \E piece \in ScanPieces : Type(piece, MaxScanPieces)

(* the driver hands the text to initScanner *)
InitScanner ==
    /\ phase = "edit"
    /\ phase' = "scanning"
    /\ scanner' = initScanner(JoinText(source))
    /\ UNCHANGED <<source, parser, current, vm, result, log, calls>>

(* one call of scanToken, at most maxCalls of them *)
ScanToken(maxCalls) ==
    /\ phase = "scanning"
    /\ Len(log) < maxCalls
    /\ \E r \in scannerScanToken(scanner) :
           /\ scanner' = r.st
           /\ log' = Append(log, [ev |-> "scanToken", panic |-> FALSE,
                                  d |-> [before |-> scanner, after |-> r.st, ret |-> r.ret]])
    /\ UNCHANGED <<source, phase, parser, current, vm, result, calls>>

ScanTokenScan == ScanToken(MaxScanCalls)

NextScan == TypeScan \/ InitScanner \/ ScanTokenScan

SpecScan == Init /\ [][NextScan]_vars

(* C11: a call of scanToken that does not return TOKEN_EOF consumes at    *)
(* least one character and none moves past the end of the text, so a call *)
(* after as many calls as the text has characters returns TOKEN_EOF; and  *)
(* after a TOKEN_EOF every later call returns TOKEN_EOF.                  *)
C11_EofAfterFinitelyManyCalls ==
    \A i \in Events("scanToken") :
        LET d == log[i].d
        IN  /\ d.after.current <= Len(d.after.source)
            /\ d.ret.type # "TOKEN_EOF" => d.after.current > d.before.current
            /\ i > Len(d.before.source) => d.ret.type = "TOKEN_EOF"
            /\ d.ret.type = "TOKEN_EOF" =>
                   \A j \in Events("scanToken") : j > i => log[j].d.ret.type = "TOKEN_EOF"

(* ---- identifiers and keywords: words put together from pieces --------- *)
MaxWordPieces == 2

MaxWordCalls == 4

KeywordTypes ==
    {"TOKEN_AND", "TOKEN_CLASS", "TOKEN_ELSE", "TOKEN_FALSE", "TOKEN_FOR",
     "TOKEN_FUN", "TOKEN_IF", "TOKEN_NIL", "TOKEN_OR", "TOKEN_PRINT",
     "TOKEN_RETURN", "TOKEN_SUPER", "TOKEN_THIS", "TOKEN_TRUE", "TOKEN_VAR",
     "TOKEN_WHILE"}

WordPieces ==
    {Lexemes[k] : k \in KeywordTypes}
        \cup {"f", "t", "x", "r", "_", "A", "1", " ",
              "fo", "fu", "fa", "th", "tr", "an", "clas"}

TypeWord == \E piece \in WordPieces : Type(piece, MaxWordPieces)

ScanTokenWord == ScanToken(MaxWordCalls)

NextWord == TypeWord \/ InitScanner \/ ScanTokenWord

SpecWord == Init /\ [][NextWord]_vars

(* the text between scanner.start and scanner.current *)
Lexeme(sc) == SubSeq(sc.source, sc.start + 1, sc.current)

(* C12: a lexeme that starts with a letter or an underscore gets the type *)
(* of a keyword exactly when it is that keyword, and TOKEN_IDENTIFIER     *)
(* otherwise.                                                             *)
C12_KeywordOrIdentifier ==
    \A i \in Events("scanToken") :
        LET sc == log[i].d.after
        IN  isAlpha(CharAt(sc.source, sc.start)) =>
                IF \E k \in KeywordTypes : Lexemes[k] = Lexeme(sc)
                THEN /\ log[i].d.ret.type \in KeywordTypes
                     /\ Lexemes[log[i].d.ret.type] = Lexeme(sc)
                ELSE log[i].d.ret.type = "TOKEN_IDENTIFIER"

(* ---- scanner and compiler together: a text is scanned to its end and   *)
(* ---- the compiler is run on the tokens                                 *)
MaxLexPieces == 4

MaxLexCalls == 6

LexPieces == {"a", "1", ";", " ", "\"", "@"}

TypeLex == \E piece \in LexPieces : Type(piece, MaxLexPieces)

ScanTokenLex == ScanToken(MaxLexCalls)

(* the tokens the calls of scanToken returned before TOKEN_EOF *)
Scanned ==
    SelectSeq([i \in 1..Len(log) |-> log[i].d.ret], LAMBDA t : t.type # "TOKEN_EOF")

(* compile() on a text whose scanToken calls have reached TOKEN_EOF: the  *)
(* compiler takes the tokens the scanner returned, in that order          *)
CompileScanned ==
    /\ phase = "scanning"
    /\ log # <<>> /\ log[Len(log)].d.ret.type = "TOKEN_EOF"
    /\ \E r \in {compile(Scanned, parser, vm)} :
           /\ parser' = r.st.parser
           /\ vm' = r.st.vm
           /\ result' = r.ret
           /\ log' = log \o r.st.log
    /\ phase' = "compiled"
    /\ UNCHANGED <<source, scanner, current, calls>>

NextLex == TypeLex \/ InitScanner \/ ScanTokenLex \/ CompileScanned

SpecLex == Init /\ [][NextLex]_vars

Unterminated == Token("TOKEN_ERROR", "Unterminated string.")

Unexpected == Token("TOKEN_ERROR", "Unexpected character.")

(* the characters a token can start with *)
StartsToken(c) ==
    \/ isAlpha(c) \/ isDigit(c)
    \/ c \in DOMAIN OneChar \/ c \in DOMAIN TwoChar \/ c = "\""

(* the error tokens among the tokens an advance() took *)
ErrorTokens(d) == SelectSeq(d.scanned, LAMBDA t : t.type = "TOKEN_ERROR")

AfterStatements(n) ==
    [initCompiler([scanner |-> [tokens |-> <<>>, next |-> 0], parser |-> parser,
                   compilers |-> <<>>, vm |-> initVM, log |-> <<>>],
                  "TYPE_SCRIPT").compilers
        EXCEPT ![1].function.chunk =
            [code      |-> [k \in 1..(3 * n) |->
                               CASE k % 3 = 1 -> OP_CONSTANT
                                 [] k % 3 = 2 -> (k - 2) \div 3
                                 [] OTHER -> OP_POP],
             constants |-> [k \in 1..n |-> NUMBER_VAL(1)]]]

(* compile() from the point where the text before src has been compiled  *)
(* into the compilers cs: the while of compile goes on with src.          *)
compileRest(src, p, cs, v) ==
    Bind(compileLoop(advance(
             [scanner |-> [tokens |-> src, next |-> 0],
              parser |-> [p EXCEPT !.hadError = FALSE, !.panicMode = FALSE,
                                   !.current = IF currentChunk([compilers |-> cs]).code = <<>>
                                               THEN @ ELSE T("TOKEN_SEMICOLON")],
              compilers |-> cs, vm |-> v, log |-> <<>>])), LAMBDA s1 :
    Bind(endCompiler(s1), LAMBDA e :
    [st  |-> e.st,
     ret |-> [null |-> e.st.parser.hadError, function |-> e.ret]]))

(* the driver has handed over a text that begins with n statements *)
Begin(cs) ==
    /\ phase = "edit" /\ source = <<>> /\ current = <<>>
    /\ current' = cs
    /\ UNCHANGED <<source, phase, scanner, parser, vm, result, log, calls>>

(* the text goes on with one more piece *)
TypeRest(piece, maxPieces) == current # <<>> /\ Type(piece, maxPieces)

(* compile() has come to the end of the text *)
CompileRest ==
    /\ phase = "edit" /\ current # <<>>
    /\ \E r \in {compileRest(Join(source), parser, current, vm)} :
           /\ parser' = r.st.parser
           /\ vm' = r.st.vm
           /\ result' = r.ret
           /\ log' = r.st.log
    /\ phase' = "compiled"
    /\ UNCHANGED <<source, scanner, current, calls>>

(* ---- the constant pool ------------------------------------------------ *)
MaxConstPieces == 2

(* how many statements `1;` the text begins with *)
ConstStatements == {0, 1, 2, UINT8_MAX - 1, UINT8_MAX, UINT8_COUNT}

ConstPieces ==
    { <<Num("1"), T("TOKEN_SEMICOLON")>>,                        \* 1;
      <<Ident("a"), T("TOKEN_SEMICOLON")>>,                      \* a;
      <<Ident("a"), T("TOKEN_LEFT_PAREN"), T("TOKEN_PLUS"), T("TOKEN_COMMA"),
        Num("1"), T("TOKEN_RIGHT_PAREN"), T("TOKEN_SEMICOLON")>> }   \* a(+, 1);

BeginConst == \E n \in ConstStatements : Begin(AfterStatements(n))

TypeConst == \E piece \in ConstPieces : TypeRest(piece, MaxConstPieces)

NextConst == BeginConst \/ TypeConst \/ CompileRest

SpecConst == Init /\ [][NextConst]_vars

(* the state AfterStatements(n) is the one compile() is in after n        *)
(* statements `1;`: going on from it gives what compile() gives for the   *)
(* whole text                                                             *)
AfterStatementsIsCompiled ==
    \A n \in {m \in ConstStatements : m <= 2} :
        (phase = "compiled" /\ Len(currentChunk([compilers |-> current]).code) = 3 * n) =>
            LET whole == compile(Join([k \in 1..n |-> <<Num("1"), T("TOKEN_SEMICOLON")>>])
                                     \o Join(source), parser, initVM)
            IN  /\ whole.ret = result
                /\ SelectSeq(whole.st.log, LAMBDA e : e.ev \in {"report", "suppressed"})
                       = SelectSeq(log, LAMBDA e : e.ev \in {"report", "suppressed"})

(* the message of makeConstant *)
TooManyConstants == "Too many constants in one chunk."

(* entry j of the log is written with the parser in panic mode: after a   *)
(* message that was printed and before the next synchronize()             *)
InPanic(j) ==
    \E k \in 1..(j - 1) :
        /\ log[k].ev = "report"
        /\ \A l \in (k + 1)..(j - 1) : log[l].ev # "synchronize"

(* entry j of the log is a call of error() or errorAtCurrent() with the   *)
(* message: printed / printed unless the parser is in panic mode          *)
Printed(j, message) ==
    j \in 1..Len(log) /\ log[j].ev = "report" /\ log[j].d = message

ErrorCalled(j, message) ==
    /\ j \in 1..Len(log)
    /\ log[j].ev = (IF InPanic(j) THEN "suppressed" ELSE "report")
    /\ log[j].d = message

NoError(j, message) ==
    ~(j \in 1..Len(log) /\ log[j].ev \in {"report", "suppressed"} /\ log[j].d = message)

(* C14 as stated: the first 256 constants of a chunk get the indices 0 to *)
(* 255 without an error, every later one reports "Too many constants in   *)
(* one chunk." and gets 0, and what makeConstant returns is in 0..255.    *)
C14_ConstantLimitReported ==
    \A i \in Events("makeConstant") :
        /\ log[i].d.ret \in 0..UINT8_MAX
        /\ IF log[i].d.constant < UINT8_COUNT
           THEN log[i].d.ret = log[i].d.constant /\ NoError(i - 1, TooManyConstants)
           ELSE log[i].d.ret = 0 /\ Printed(i - 1, TooManyConstants)

(* C14: the first 256 constants of a chunk get the indices 0 to 255       *)
(* without an error; for every later one makeConstant calls error() with  *)
(* "Too many constants in one chunk.", which prints it unless the parser  *)
(* is in panic mode, and returns 0; what it returns is in 0..255.         *)
C14_ConstantLimit ==
    \A i \in Events("makeConstant") :
        /\ log[i].d.ret \in 0..UINT8_MAX
        /\ IF log[i].d.constant < UINT8_COUNT
           THEN log[i].d.ret = log[i].d.constant /\ NoError(i - 1, TooManyConstants)
           ELSE log[i].d.ret = 0 /\ ErrorCalled(i - 1, TooManyConstants)

(* the 256th constant of a chunk gets index 255 and the 257th is refused  *)
(* with the message printed                                               *)
C14_Witness ==
    /\ phase = "compiled"
    /\ \E i, j \in Events("makeConstant") :
           /\ log[i].d.constant = UINT8_MAX /\ log[i].d.ret = UINT8_MAX
           /\ log[j].d.constant = UINT8_COUNT /\ log[j].d.ret = 0
           /\ Printed(j - 1, TooManyConstants)

(* ---- the table of locals ---------------------------------------------- *)
MaxLocalPieces == 2

(* the name of the k-th variable of a long block: v000, v001, ... *)
VarName(k) ==
    LET digit == <<"0", "1", "2", "3", "4", "5", "6", "7", "8", "9">>
    IN  "v" \o digit[((k \div 100) % 10) + 1] \o digit[((k \div 10) % 10) + 1]
            \o digit[(k % 10) + 1]

(* The state of the compiler after advance() and the text                 *)
(* `{ var v001; ... var v<n>; {` at the top level of a script, n <= 255:  *)
(* scopeDepth is 2, every declaration has emitted OP_NIL and added one    *)
(* local of depth 1 behind slot 0.                                        *)
AfterVars(n) ==
    LET cs == initCompiler([scanner |-> [tokens |-> <<>>, next |-> 0], parser |-> parser,
                            compilers |-> <<>>, vm |-> initVM, log |-> <<>>],
                           "TYPE_SCRIPT").compilers
    IN  [cs EXCEPT ![1].scopeDepth = 2,
                   ![1].function.chunk.code = [k \in 1..n |-> OP_NIL],
                   ![1].locals = [k \in 1..(n + 1) |->
                                     IF k = 1 THEN cs[1].locals[1]
                                     ELSE [name |-> [start |-> VarName(k - 1), length |-> 4],
                                           depth |-> 1, isCaptured |-> FALSE]]]

(* how many declarations the outer block begins with *)
LocalVars == {0, 1, 2, UINT8_MAX - 1, UINT8_MAX}

LocalPieces ==
    { <<T("TOKEN_VAR"), Ident("a"), T("TOKEN_SEMICOLON")>>,     \* var a;
      <<T("TOKEN_VAR"), Ident("b"), T("TOKEN_SEMICOLON")>>,     \* var b;
      <<T("TOKEN_VAR"), Ident("c"), T("TOKEN_SEMICOLON")>>,     \* var c;
      <<T("TOKEN_VAR"), T("TOKEN_SEMICOLON")>> }                \* var ;

BeginLocal == \E n \in LocalVars : Begin(AfterVars(n))

TypeLocal == \E piece \in LocalPieces : TypeRest(piece, MaxLocalPieces)

(* block() from the point where the declarations before src have been    *)
(* compiled into the compilers cs: the while of block goes on with src.   *)
blockRest(src, p, cs, v) ==
    block(advance([scanner |-> [tokens |-> src, next |-> 0],
                   parser |-> [p EXCEPT !.hadError = FALSE, !.panicMode = FALSE,
                                        !.current = T("TOKEN_LEFT_BRACE")],
                   compilers |-> cs, vm |-> v, log |-> <<>>]))

(* block() has come to the end of the text *)
BlockRest ==
    /\ phase = "edit" /\ current # <<>>
    /\ \E r \in {blockRest(Join(source), parser, current, vm)} :
           /\ parser' = r.parser
           /\ vm' = r.vm
           /\ current' = r.compilers
           /\ log' = r.log
    /\ phase' = "compiled"
    /\ UNCHANGED <<source, scanner, result, calls>>

NextLocal == BeginLocal \/ TypeLocal \/ BlockRest

SpecLocal == Init /\ [][NextLocal]_vars

(* the entries of a log that are calls of addLocal or of error() *)
LocalsAndErrors(l) == SelectSeq(l, LAMBDA e : e.ev \in {"addLocal", "report", "suppressed"})

(* the state AfterVars(n) is the one compile() is in after the n          *)
(* declarations: going on from it does what compile() does with the rest  *)
(* of the whole text                                                      *)
AfterVarsIsCompiled ==
    LET n == Cardinality({k \in 1..Len(current[1].locals) : current[1].locals[k].depth = 1})
    IN  (phase = "compiled" /\ n <= 2) =>
            LET text  == <<T("TOKEN_LEFT_BRACE")>>
                             \o Join([k \in 1..n |-> <<T("TOKEN_VAR"), Ident(VarName(k)),
                                                      T("TOKEN_SEMICOLON")>>])
                             \o <<T("TOKEN_LEFT_BRACE")>> \o Join(source)
                whole == LocalsAndErrors(compile(text, parser, initVM).st.log)
                rest  == LocalsAndErrors(log)
            IN  SubSeq(whole, n + 1, n + Len(rest)) = rest

TooManyLocals == "Too many local variables in function."

(* C15 as stated: addLocal adds an entry while the table has fewer than   *)
(* 256; with 256 entries it reports "Too many local variables in          *)
(* function." and adds nothing; localCount never exceeds 256.             *)
C15_LocalLimitReported ==
    \A i \in Events("addLocal") :
        /\ log[i].d.after <= UINT8_COUNT
        /\ IF log[i].d.before < UINT8_COUNT
           THEN log[i].d.after = log[i].d.before + 1 /\ NoError(i - 1, TooManyLocals)
           ELSE log[i].d.after = log[i].d.before /\ Printed(i - 1, TooManyLocals)

(* C15: addLocal adds an entry while the table has fewer than 256; with   *)
(* 256 entries it calls error() with "Too many local variables in         *)
(* function.", which prints it unless the parser is in panic mode, and    *)
(* adds nothing; localCount never exceeds 256.                            *)
C15_LocalLimit ==
    \A i \in Events("addLocal") :
        /\ log[i].d.after <= UINT8_COUNT
        /\ IF log[i].d.before < UINT8_COUNT
           THEN log[i].d.after = log[i].d.before + 1 /\ NoError(i - 1, TooManyLocals)
           ELSE log[i].d.after = log[i].d.before /\ ErrorCalled(i - 1, TooManyLocals)

(* the table takes its 256th entry, and the one after that is refused     *)
(* with the message printed                                               *)
C15_Witness ==
    /\ phase = "compiled"
    /\ \E i, j \in Events("addLocal") :
           /\ log[i].d.before = UINT8_MAX /\ log[i].d.after = UINT8_COUNT
           /\ log[j].d.before = UINT8_COUNT /\ log[j].d.after = UINT8_COUNT
           /\ Printed(j - 1, TooManyLocals)

(* ---- the offset of OP_LOOP -------------------------------------------- *)
MaxLoopPieces == 3

(* The state of the compiler after advance() and the text                 *)
(* `while (nil) { while (nil) {` with n lines `nil;` under it, at the top *)
(* level of a script: the outer loop starts at 0 and has its              *)
(* jump operand at 2, the inner loop starts at 5 and has its jump operand *)
(* at 7, each statement has emitted OP_NIL and OP_POP (NilStatements),    *)
(* scopeDepth is 2.                                                       *)
RECURSIVE NilStatements(_)
NilStatements(n) ==
    IF n = 0 THEN <<>>
    ELSE Bind(NilStatements(n \div 2), LAMBDA half :
         half \o half \o (IF n % 2 = 1 THEN <<OP_NIL, OP_POP>> ELSE <<>>))

AfterWhile(n) ==
    LET cs == initCompiler([scanner |-> [tokens |-> <<>>, next |-> 0], parser |-> parser,
                            compilers |-> <<>>, vm |-> initVM, log |-> <<>>],
                           "TYPE_SCRIPT").compilers
        head == <<OP_NIL, OP_JUMP_IF_FALSE, 255, 255, OP_POP>>
    IN  [cs EXCEPT ![1].scopeDepth = 2,
                   ![1].function.chunk.code = head \o head \o NilStatements(n)]

(* how many statements `nil;` the inner body begins with: with the last   *)
(* of them and a further three bytes the offset of the inner OP_LOOP is   *)
(* UINT16_MAX                                                             *)
LoopStatements == {0, 1, (UINT16_MAX - 11) \div 2}

LoopPieces ==
    { <<T("TOKEN_NIL"), T("TOKEN_SEMICOLON")>>,                   \* nil;
      <<T("TOKEN_MINUS"), T("TOKEN_NIL"), T("TOKEN_SEMICOLON")>>, \* -nil;
      <<T("TOKEN_RIGHT_BRACE")>> }                                \* }

(* the driver has handed over a text that begins with the two loop heads  *)
(* and n lines `nil;`: the scanner is on line n + 1                       *)
BeginLoop ==
    \E n \in LoopStatements :
        /\ phase = "edit" /\ source = <<>> /\ scanner.line = 0
        /\ scanner' = [scanner EXCEPT !.line = n + 1]
        /\ UNCHANGED <<source, phase, parser, current, vm, result, log, calls>>

(* the text goes on with one more piece on the same line *)
TypeLoop == \E piece \in LoopPieces : scanner.line > 0 /\ Type(piece, MaxLoopPieces)

(* compile() from the point where the text before src has been compiled  *)
(* into the compilers cs: the inner block goes on with src, then the      *)
(* inner whileStatement, the declaration() that called it, the outer      *)
(* block and whileStatement, its declaration() and the while of compile.  *)
whileRest(src, p, cs, v) ==
    Bind(advance([scanner |-> [tokens |-> src, next |-> 0],
                  parser |-> [p EXCEPT !.hadError = FALSE, !.panicMode = FALSE,
                                       !.current =
                                           IF Len(currentChunk([compilers |-> cs]).code) = 10
                                           THEN T("TOKEN_LEFT_BRACE")
                                           ELSE T("TOKEN_SEMICOLON")],
                  compilers |-> cs, vm |-> v, log |-> <<>>]), LAMBDA s0 :
    Bind(declarationEnd(whileStatementEnd(endScope(block(s0)), 5, 7)), LAMBDA s1 :
    Bind(declarationEnd(whileStatementEnd(endScope(block(s1)), 0, 2)), LAMBDA s2 :
    Bind(endCompiler(compileLoop(s2)), LAMBDA e :
    [st  |-> e.st,
     ret |-> [null |-> e.st.parser.hadError, function |-> e.ret]]))))

(* compile() has come to the end of the text; the function it returns is  *)
(* kept where the text is short                                           *)
WhileRest ==
    /\ phase = "edit" /\ scanner.line > 0
    /\ \E r \in {whileRest(Join(source), parser, AfterWhile(scanner.line - 1), vm)} :
           /\ parser' = r.st.parser
           /\ vm' = r.st.vm
           /\ log' = r.st.log
           /\ result' = IF scanner.line <= 2 THEN r.ret ELSE result
    /\ phase' = "compiled"
    /\ UNCHANGED <<source, scanner, current, calls>>

NextLoop == BeginLoop \/ TypeLoop \/ WhileRest

SpecLoop == Init /\ [][NextLoop]_vars

(* the state AfterWhile(n) is the one compile() is in after the text it   *)
(* stands for: going on from it gives what compile() gives for the whole  *)
(* text                                                                   *)
AfterWhileIsCompiled ==
    \A n \in {m \in LoopStatements : m <= 1} :
        (phase = "compiled" /\ scanner.line = n + 1) =>
            LET open  == <<T("TOKEN_WHILE"), T("TOKEN_LEFT_PAREN"), T("TOKEN_NIL"),
                           T("TOKEN_RIGHT_PAREN"), T("TOKEN_LEFT_BRACE")>>
                whole == compile(open \o open
                                     \o Join([k \in 1..n |-> <<T("TOKEN_NIL"),
                                                               T("TOKEN_SEMICOLON")>>])
                                     \o Join(source), parser, initVM)
                rest  == whileRest(Join(source), parser, AfterWhile(n), initVM)
                kept(l) == SelectSeq(l, LAMBDA e : e.ev \in {"emitLoop", "report", "suppressed"})
            IN  /\ whole.ret = rest.ret
                /\ kept(whole.st.log) = kept(log)
                /\ rest.st.log = log

LoopTooLarge == "Loop body too large."

(* C16 as stated: emitLoop reports "Loop body too large." exactly when    *)
(* the offset exceeds 65535; up to 65535 it reports nothing and the two   *)
(* operand bytes are the offset, high byte first.                         *)
C16_LoopOffsetReported ==
    \A i \in Events("emitLoop") :
        IF log[i].d.offset > UINT16_MAX
        THEN Printed(i - 1, LoopTooLarge)
        ELSE /\ NoError(i - 1, LoopTooLarge)
             /\ log[i].d.operand[1] \in 0..255 /\ log[i].d.operand[2] \in 0..255
             /\ log[i].d.operand[1] * 256 + log[i].d.operand[2] = log[i].d.offset

(* C16: emitLoop calls error() with "Loop body too large.", which prints  *)
(* it unless the parser is in panic mode, exactly when the offset exceeds *)
(* 65535; up to 65535 it calls no error and the two operand bytes are the *)
(* offset, high byte first.                                               *)
C16_LoopOffset ==
    \A i \in Events("emitLoop") :
        IF log[i].d.offset > UINT16_MAX
        THEN ErrorCalled(i - 1, LoopTooLarge)
        ELSE /\ NoError(i - 1, LoopTooLarge)
             /\ log[i].d.operand[1] \in 0..255 /\ log[i].d.operand[2] \in 0..255
             /\ log[i].d.operand[1] * 256 + log[i].d.operand[2] = log[i].d.offset

(* the inner loop has the offset 65535 in its operand without a message,  *)
(* the outer one is too large and the message is printed                  *)
C16_Witness ==
    /\ phase = "compiled"
    /\ \E i, j \in Events("emitLoop") :
           /\ log[i].d.offset = UINT16_MAX /\ log[i].d.operand = <<255, 255>>
           /\ NoError(i - 1, LoopTooLarge)
           /\ log[j].d.offset > UINT16_MAX /\ Printed(j - 1, LoopTooLarge)

(* ---- class declarations ----------------------------------------------- *)
MaxClassPieces == 3

ClassHead == <<T("TOKEN_CLASS"), Ident("C"), T("TOKEN_LEFT_BRACE")>>   \* class C {

ClassMethod ==
    <<Ident("m"), T("TOKEN_LEFT_PAREN"), T("TOKEN_RIGHT_PAREN"),
      T("TOKEN_LEFT_BRACE"), T("TOKEN_RIGHT_BRACE")>>                  \* m() {}

ClassPieces ==
    { ClassHead, ClassMethod, <<T("TOKEN_RIGHT_BRACE")>>,
      <<T("TOKEN_PRINT"), Num("1"), T("TOKEN_SEMICOLON")>> }           \* print 1;

TypeClass == \E piece \in ClassPieces : Type(piece, MaxClassPieces)

NextClass == TypeClass \/ Compile

SpecClass == Init /\ [][NextClass]_vars

(* the text is `class C {`, some methods `m() {}` and `}` *)
IsClassDeclaration(pieces) ==
    /\ Len(pieces) >= 2
    /\ pieces[1] = ClassHead
    /\ pieces[Len(pieces)] = <<T("TOKEN_RIGHT_BRACE")>>
    /\ \A k \in 2..(Len(pieces) - 1) : pieces[k] = ClassMethod

(* C17: a text that is a class declaration compiles without an error; the *)
(* code begins with OP_CLASS and the constant of the class name, and has  *)
(* an OP_METHOD for each method.                                          *)
C17_ClassDeclaration ==
    (phase = "compiled" /\ IsClassDeclaration(source)) =>
        LET chunk == result.function.chunk
        IN  /\ Reports = {}
            /\ ~result.null
            /\ Len(chunk.code) >= 2
            /\ chunk.code[1] = OP_CLASS
            /\ chunk.code[2] + 1 \in 1..Len(chunk.constants)
            /\ chunk.constants[chunk.code[2] + 1].kind = "string"
            /\ Cardinality({k \in 1..Len(chunk.code) : chunk.code[k] = OP_METHOD})
                   >= Len(source) - 2

(* ---- synchronize ------------------------------------------------------ *)
(* the entry of the log where the call of synchronize that returns at j   *)
(* was entered                                                            *)
Entered(j) == Highest({i \in Events("synchronize") : i < j})

(* the messages printed while that call skipped tokens *)
PrintedIn(j) == {k \in (Entered(j) + 1)..(j - 1) : log[k].ev = "report"}

(* where synchronize() returns: parser.current is TOKEN_EOF or one of the *)
(* keywords that start a statement, or parser.previous is TOKEN_SEMICOLON *)
AtBoundary(d) ==
    \/ d.current = "TOKEN_EOF"
    \/ d.previous = "TOKEN_SEMICOLON"
    \/ d.current \in SyncTokens

(* C18 as stated: when synchronize() returns panicMode is false and the   *)
(* parser is at a statement boundary; the only messages printed while it  *)
(* skips tokens are those of scanner error tokens.                        *)
C18_PanicFalseAtReturn ==
    \A j \in Events("synchronized") :
        /\ ~log[j].panic
        /\ AtBoundary(log[j].d)
        /\ \A k \in PrintedIn(j) : log[k].d = ErrorToken.start

(* C18: synchronize() clears panicMode when it is entered; when it        *)
(* returns the parser is at a statement boundary, and panicMode is true   *)
(* exactly when a scanner error token was met while it skipped tokens;    *)
(* the message of the first such token is the only one printed.           *)
C18_SynchronizePost ==
    \A j \in Events("synchronized") :
        /\ ~log[Entered(j)].panic
        /\ AtBoundary(log[j].d)
        /\ \A k \in PrintedIn(j) : log[k].d = ErrorToken.start
        /\ Cardinality(PrintedIn(j)) <= 1
        /\ log[j].panic <=> PrintedIn(j) # {}

(* one call of synchronize() skips an error token and returns in panic    *)
(* mode at the end of the text                                            *)
C18_Witness ==
    /\ phase = "compiled"
    /\ \E j \in Events("synchronized") :
           /\ log[j].panic /\ PrintedIn(j) # {}
           /\ log[j].d.current = "TOKEN_EOF"
           /\ j > Entered(j) + 2

(* ---- assignment targets ----------------------------------------------- *)
MaxAssignPieces == 4

AssignPieces ==
    { <<Ident("a")>>,                                               \* a
      <<T("TOKEN_PLUS"), Ident("b")>>,                              \* + b
      <<T("TOKEN_EQUAL"), Num("1")>>,                               \* = 1
      <<T("TOKEN_MINUS")>>,                                         \* -
      <<T("TOKEN_LEFT_PAREN"), Ident("a"), T("TOKEN_RIGHT_PAREN")>>,   \* (a)
      <<Num("1")>>,                                                 \* 1
      <<T("TOKEN_SEMICOLON")>>,                                     \* ;
      <<Ident("a"), T("TOKEN_LEFT_PAREN"), T("TOKEN_PLUS"),
        T("TOKEN_COMMA")>>,                                         \* a(+,
      <<T("TOKEN_LEFT_BRACE"), T("TOKEN_VAR"), Ident("a"),
        T("TOKEN_SEMICOLON")>> }                                    \* { var a;

TypeAssign == \E piece \in AssignPieces : Type(piece, MaxAssignPieces)

NextAssign == TypeAssign \/ Compile

SpecAssign == Init /\ [][NextAssign]_vars

InvalidTarget == "Invalid assignment target."

(* the namedVariable entries of the log that are assignments *)
Assignments == {i \in Events("namedVariable") : log[i].d.isSet}

(* `a + b = 1`, `-a = 1`, `(a) = 1`, `1 = 1` *)
InvalidTargets ==
    { <<<<Ident("a")>>, <<T("TOKEN_PLUS"), Ident("b")>>, <<T("TOKEN_EQUAL"), Num("1")>>>>,
      <<<<T("TOKEN_MINUS")>>, <<Ident("a")>>, <<T("TOKEN_EQUAL"), Num("1")>>>>,
      <<<<T("TOKEN_LEFT_PAREN"), Ident("a"), T("TOKEN_RIGHT_PAREN")>>,
        <<T("TOKEN_EQUAL"), Num("1")>>>>,
      <<<<Num("1")>>, <<T("TOKEN_EQUAL"), Num("1")>>>> }

(* `a = 1;` at the top level, and in a block where a is a local and which *)
(* the text leaves open                                                   *)
ValidTargets ==
    { <<<<Ident("a")>>, <<T("TOKEN_EQUAL"), Num("1")>>, <<T("TOKEN_SEMICOLON")>>>>,
      <<<<T("TOKEN_LEFT_BRACE"), T("TOKEN_VAR"), Ident("a"), T("TOKEN_SEMICOLON")>>,
        <<Ident("a")>>, <<T("TOKEN_EQUAL"), Num("1")>>, <<T("TOKEN_SEMICOLON")>>>> }

(* what every call of parsePrecedence does with `=`, but for the printing *)
(* of the message: a variable parsed at assignment precedence with `=`    *)
(* behind it takes the assignment and emits the set instruction of the    *)
(* kind the name resolves to; one parsed as an operand takes none         *)
AssignmentRules(i) ==
    LET d == log[i].d
    IN  /\ (d.precedence <= PREC_ASSIGNMENT /\ ~d.equal) => NoError(i - 1, InvalidTarget)
        /\ d.precedence > PREC_ASSIGNMENT =>
               ~d.isSet /\ NoError(i - 1, InvalidTarget)
        /\ (d.precedence <= PREC_ASSIGNMENT /\ d.prefix = "TOKEN_IDENTIFIER") =>
               (d.isSet <=> d.next = "TOKEN_EQUAL")

SetInstruction(i) ==
    LET d     == log[i].d
        top   == Len(d.frames)
        outer == {l \in 1..(top - 1) : Named(d.frames[l], d.name) # {}}
    IN  d.emitted[1] = (IF Named(d.frames[top], d.name) # {} THEN OP_SET_LOCAL
                        ELSE IF outer # {} THEN OP_SET_UPVALUE ELSE OP_SET_GLOBAL)

AssignmentExamples ==
    /\ (phase = "compiled" /\ source \in InvalidTargets) =>
           /\ \E j \in Reports : log[j].d = InvalidTarget
           /\ Assignments = {}
    /\ (phase = "compiled" /\ source \in ValidTargets) =>
           /\ \A j \in Reports : Len(source) = 4 /\ log[j].d = "Expect '}' after block."
           /\ Cardinality(Assignments) = 1
           /\ LET code == result.function.chunk.code
                  set  == IF Len(source) = 3 THEN OP_SET_GLOBAL ELSE OP_SET_LOCAL
                  at   == IF Len(source) = 3 THEN 0 ELSE 1
              IN  SubSeq(code, at + 1, at + 5)
                      = <<OP_CONSTANT, code[at + 2], set, code[at + 4], OP_POP>>

(* C19 as stated: an `=` behind an expression that is not a plain         *)
(* variable parsed at assignment precedence reports "Invalid assignment   *)
(* target."; `a = e` reports nothing and emits the code of e and the      *)
(* matching set instruction; an operand of an operator never takes `=`.   *)
C19_InvalidTargetReported ==
    /\ \A i \in Events("parsePrecedence") :
           /\ AssignmentRules(i)
           /\ (log[i].d.precedence <= PREC_ASSIGNMENT /\ log[i].d.equal) =>
                  Printed(i - 1, InvalidTarget)
    /\ \A i \in Assignments : SetInstruction(i)
    /\ AssignmentExamples

(* C19: an `=` behind an expression that is not a plain variable parsed   *)
(* at assignment precedence makes parsePrecedence call error() with       *)
(* "Invalid assignment target.", which prints it unless the parser is in  *)
(* panic mode; `a = e` calls no such error and emits the code of e and    *)
(* the matching set instruction; an operand of an operator never takes    *)
(* `=`.                                                                   *)
C19_AssignmentTargets ==
    /\ \A i \in Events("parsePrecedence") :
           /\ AssignmentRules(i)
           /\ (log[i].d.precedence <= PREC_ASSIGNMENT /\ log[i].d.equal) =>
                  ErrorCalled(i - 1, InvalidTarget)
    /\ \A i \in Assignments : SetInstruction(i)
    /\ AssignmentExamples

(* `a = 1 + b = 1`: a takes its assignment, b is an operand of + and      *)
(* leaves the `=` behind it, and 1 + b is reported as an invalid target   *)
C19_Witness ==
    /\ phase = "compiled"
    /\ \E i \in Assignments : log[i].d.name = "a" /\ log[i].d.emitted[1] = OP_SET_GLOBAL
    /\ \E i \in Events("parsePrecedence") :
           /\ log[i].d.precedence > PREC_ASSIGNMENT
           /\ log[i].d.prefix = "TOKEN_IDENTIFIER" /\ log[i].d.next = "TOKEN_EQUAL"
           /\ ~log[i].d.isSet
    /\ \E i \in Events("parsePrecedence") :
           /\ log[i].d.prefix = "TOKEN_NUMBER" /\ log[i].d.equal
           /\ Printed(i - 1, InvalidTarget)

(* ---- rooting of a string under construction --------------------------- *)
(* the value v is on the value stack *)
OnStack(stack, v) == \E i \in 1..Len(stack) : stack[i] = v

(* C20: at every call of tableSet on vm.strings made by allocateString    *)
(* the new string is on the value stack of the VM.                        *)
C20_StringRootedAtTableSet ==
    \A k \in 1..Len(vm.tableSets) :
        OnStack(vm.tableSets[k].stack, OBJ_VAL("string", vm.tableSets[k].key))

(* ---- the allocation list ---------------------------------------------- *)
(* the objects met from o along the next pointers, at most fuel of them *)
RECURSIVE ObjectList(_, _, _)
ObjectList(heap, o, fuel) ==
    IF o = NULL \/ fuel = 0 THEN <<>>
    ELSE <<o>> \o ObjectList(heap, heap[o].next, fuel - 1)

(* the calls of copyString and takeString *)
StringCalls == Events("copyString") \cup Events("takeString")

(* C21: an object allocateObject creates becomes the head of vm.objects   *)
(* with the old head as its next; the list from vm.objects holds every    *)
(* allocated object exactly once and ends at NULL; takeString of bytes    *)
(* that are interned frees the buffer and leaves the list as it is.       *)
C21_AllocationList ==
    /\ LET list == ObjectList(vm.heap, vm.objects, Len(vm.heap) + 1)
       IN  /\ Len(list) = Len(vm.heap)
           /\ \A o \in 1..Len(vm.heap) :
                  Cardinality({k \in 1..Len(list) : list[k] = o}) = 1
    /\ \A i \in StringCalls :
           LET b == log[i].d.before
               a == log[i].d.after
           IN  IF Len(a.heap) > Len(b.heap)
               THEN /\ Len(a.heap) = Len(b.heap) + 1
                    /\ a.objects = Len(a.heap)
                    /\ a.heap[a.objects].next = b.objects
                    /\ SubSeq(a.heap, 1, Len(b.heap)) = b.heap
               ELSE a.objects = b.objects /\ a.heap = b.heap
    /\ \A i \in Events("takeString") :
           LET b == log[i].d.before
               a == log[i].d.after
           IN  (\E o \in 1..Len(b.heap) :
                    /\ b.heap[o].type = "OBJ_STRING"
                    /\ SubSeq(b.heap[o].chars, 1, b.heap[o].length) = log[i].d.chars) =>
                   /\ a.frees = b.frees + 1
                   /\ a.objects = b.objects /\ a.heap = b.heap

(* two objects on the list, the second in front of the first, and then a  *)
(* takeString of the bytes of one of them                                 *)
C21_Witness ==
    /\ Len(vm.heap) = 2 /\ vm.objects = 2 /\ vm.heap[2].next = 1 /\ vm.heap[1].next = NULL
    /\ Len(log) = 3 /\ log[3].ev = "takeString"
    /\ log[3].d.after.heap = log[3].d.before.heap
    /\ log[3].d.after.frees = log[3].d.before.frees + 1

(* ---- equality and comparison ------------------------------------------ *)
MaxPrecPieces == 4

PrecPieces ==
    { <<Ident("a")>>,
      <<T("TOKEN_EQUAL_EQUAL"), Ident("b")>>,                       \* == b
      <<T("TOKEN_BANG_EQUAL"), Ident("b")>>,                        \* != b
      <<T("TOKEN_LESS"), Ident("c")>>,                              \* < c
      <<T("TOKEN_EQUAL_EQUAL"), Ident("c")>>,                       \* == c
      <<T("TOKEN_SEMICOLON")>> }

TypePrec == \E piece \in PrecPieces : Type(piece, MaxPrecPieces)

NextPrec == TypePrec \/ Compile

SpecPrec == Init /\ [][NextPrec]_vars

(* the code of a script whose only statement is an expression statement   *)
(* over the globals a, b, c (constants 0, 1, 2), given the code of the    *)
(* operators behind the operands in the order of evaluation               *)
Grouped(operands) ==
    operands \o <<OP_POP, OP_NIL, OP_RETURN>>

Global(k) == <<OP_GET_GLOBAL, k>>

(* `a == b < c;` and `a != b == c;` *)
EqualThenLess ==
    <<<<Ident("a")>>, <<T("TOKEN_EQUAL_EQUAL"), Ident("b")>>,
      <<T("TOKEN_LESS"), Ident("c")>>, <<T("TOKEN_SEMICOLON")>>>>

UnequalThenEqual ==
    <<<<Ident("a")>>, <<T("TOKEN_BANG_EQUAL"), Ident("b")>>,
      <<T("TOKEN_EQUAL_EQUAL"), Ident("c")>>, <<T("TOKEN_SEMICOLON")>>>>

(* C22: `==` and `!=` have the precedence Equality, below the Comparison  *)
(* of `<`, `<=`, `>`, `>=`; `a == b < c` is compiled as a == (b < c) and  *)
(* `a != b == c` as (a != b) == c.                                        *)
C22_EqualityBelowComparison ==
    (phase = "compiled" /\ source \in {EqualThenLess, UnequalThenEqual}) =>
        /\ getRule("TOKEN_EQUAL_EQUAL").precedence = PREC_EQUALITY
        /\ getRule("TOKEN_BANG_EQUAL").precedence = PREC_EQUALITY
        /\ \A type \in {"TOKEN_LESS", "TOKEN_LESS_EQUAL", "TOKEN_GREATER",
                        "TOKEN_GREATER_EQUAL"} :
               /\ getRule(type).precedence = PREC_COMPARISON
               /\ PREC_EQUALITY < getRule(type).precedence
        /\ source = EqualThenLess =>
               result.function.chunk.code
                   = Grouped(Global(0) \o Global(1) \o Global(2) \o <<OP_LESS, OP_EQUAL>>)
        /\ source = UnequalThenEqual =>
               result.function.chunk.code
                   = Grouped(Global(0) \o Global(1) \o <<OP_EQUAL, OP_NOT>>
                                 \o Global(2) \o <<OP_EQUAL>>)

(* ================= the virtual machine on compiled code ================ *)
(* vm.c is not part of the sources; run() follows the table of opcodes of *)
(* the specification for the instructions the loops and the logical       *)
(* operators compile to.  A machine m is                                  *)
(*   pc       the offset of the next instruction                          *)
(*   stack    the values, each with the name it was read from and its     *)
(*            truthiness                                                  *)
(*   reads    the names of the globals read so far, in order              *)
(*   popped   the names of the values OP_POP has removed, in order        *)
(*   halt     why the machine stopped, "" while it runs                   *)
(* The n-th read of the global g is truthy iff n <= env[g].               *)
Machine == [pc |-> 0, stack |-> <<>>, reads |-> <<>>, popped |-> <<>>, halt |-> ""]

(* how often name occurs in reads *)
Count(reads, name) == Cardinality({k \in 1..Len(reads) : reads[k] = name})

(* the 16-bit operand behind the opcode at pc *)
Operand16(code, pc) == code[pc + 2] * 256 + code[pc + 3]

(* one instruction *)
Step(code, names, env, m) ==
    LET op  == code[m.pc + 1]
        top == m.stack[Len(m.stack)]
    IN  CASE op = OP_GET_GLOBAL ->
                 LET name == names[code[m.pc + 2] + 1]
                 IN  [m EXCEPT !.pc = @ + 2,
                               !.reads = Append(@, name),
                               !.stack = Append(@, [name   |-> name,
                                                    truthy |-> Count(m.reads, name) < env[name]])]
          [] op \in {OP_NIL, OP_FALSE} ->
                 [m EXCEPT !.pc = @ + 1,
                           !.stack = Append(@, [name |-> "literal", truthy |-> FALSE])]
          [] op = OP_TRUE ->
                 [m EXCEPT !.pc = @ + 1,
                           !.stack = Append(@, [name |-> "literal", truthy |-> TRUE])]
          [] op = OP_POP ->
                 IF m.stack = <<>> THEN [m EXCEPT !.halt = "underflow"]
                 ELSE [m EXCEPT !.pc = @ + 1,
                                !.popped = Append(@, top.name),
                                !.stack = SubSeq(@, 1, Len(@) - 1)]
          [] op = OP_JUMP_IF_FALSE ->
                 IF m.stack = <<>> THEN [m EXCEPT !.halt = "underflow"]
                 ELSE [m EXCEPT !.pc = @ + 3 + (IF top.truthy THEN 0
                                                ELSE Operand16(code, m.pc))]
          [] op = OP_JUMP -> [m EXCEPT !.pc = @ + 3 + Operand16(code, m.pc)]
          [] op = OP_LOOP -> [m EXCEPT !.pc = @ + 3 - Operand16(code, m.pc)]
          [] op = OP_RETURN -> [m EXCEPT !.halt = "return"]
          [] OTHER -> [m EXCEPT !.halt = "unknown"]

(* run(): instructions until the machine halts, leaves the code or has    *)
(* made fuel steps                                                        *)
RECURSIVE Run(_, _, _, _, _)
Run(code, names, env, m, fuel) ==
    IF m.halt # "" THEN m
    ELSE IF m.pc < 0 \/ m.pc >= Len(code) THEN [m EXCEPT !.halt = "end"]
    ELSE IF fuel = 0 THEN [m EXCEPT !.halt = "fuel"]
    ELSE Run(code, names, env, Step(code, names, env, m), fuel - 1)

(* the names of the string constants of a chunk *)
ConstantNames(chunk, heap) ==
    [k \in 1..Len(chunk.constants) |->
        IF chunk.constants[k].kind = "string" THEN heap[chunk.constants[k].val].chars
        ELSE "constant"]

(* ---- and, or ---------------------------------------------------------- *)
MaxLogicPieces == 5

LogicNames == {"a", "b", "c"}

And(name) == <<T("TOKEN_AND"), Ident(name)>>

Or(name) == <<T("TOKEN_OR"), Ident(name)>>

LogicPieces ==
    { <<Ident("a")>>, And("b"), Or("b"), And("c"), Or("c"), <<T("TOKEN_SEMICOLON")>> }

TypeLogic == \E piece \in LogicPieces : Type(piece, MaxLogicPieces)

NextLogic == TypeLogic \/ Compile

SpecLogic == Init /\ [][NextLogic]_vars

(* the text is `a`, one or more of `and x`, `or x`, and `;` *)
IsLogicStatement(pieces) ==
    /\ Len(pieces) >= 3
    /\ pieces[1] = <<Ident("a")>>
    /\ pieces[Len(pieces)] = <<T("TOKEN_SEMICOLON")>>
    /\ \A k \in 2..(Len(pieces) - 1) : Len(pieces[k]) = 2

(* What the expression means: the operands are evaluated from the left;   *)
(* `x and y` is x when x is falsey and y otherwise, `x or y` is x when x  *)
(* is truthy and y otherwise, and binds tighter than or.  r.mode is       *)
(* "live" while r.value is the value so far, "failed" while the operands  *)
(* of a conjunction with a falsey value are passed over, "done" once a    *)
(* disjunction has a truthy value.  r.popped lists the values dropped for *)
(* the operand that replaced them.                                        *)
RECURSIVE Meaning(_, _, _, _)
Meaning(pieces, k, truthy, r) ==
    IF k > Len(pieces) - 1 THEN r
    ELSE LET name == pieces[k][2].start
             next == [value  |-> name,
                      reads  |-> Append(r.reads, name),
                      popped |-> Append(r.popped, r.value),
                      mode   |-> "live"]
         IN  Meaning(pieces, k + 1, truthy,
                 IF pieces[k][1].type = "TOKEN_AND"
                 THEN IF r.mode = "live"
                      THEN IF r.value \in truthy THEN next ELSE [r EXCEPT !.mode = "failed"]
                      ELSE r
                 ELSE IF r.mode = "done" THEN r
                      ELSE IF r.mode = "live" /\ r.value \in truthy
                           THEN [r EXCEPT !.mode = "done"]
                           ELSE next)

(* C23: in the code of `a and b` b is evaluated only when a is truthy, in *)
(* that of `a or b` only when a is falsey; on every path the expression   *)
(* leaves exactly one value, a when b is passed over and b otherwise, and *)
(* the left operand is popped once where the right one is evaluated and   *)
(* not at all where it is passed over.                                    *)
C23_ShortCircuit ==
    (phase = "compiled" /\ IsLogicStatement(source)) =>
        LET chunk == result.function.chunk
            code  == SubSeq(chunk.code, 1, Len(chunk.code) - 3)
        IN  /\ ~result.null
            /\ SubSeq(chunk.code, Len(chunk.code) - 2, Len(chunk.code))
                   = <<OP_POP, OP_NIL, OP_RETURN>>
            /\ \A truthy \in SUBSET LogicNames :
                   LET env  == [g \in LogicNames |-> IF g \in truthy THEN UINT8_MAX ELSE 0]
                       m    == Run(code, ConstantNames(chunk, vm.heap), env, Machine,
                                   Len(code) + 1)
                       r    == Meaning(source, 2, truthy,
                                       [value |-> "a", reads |-> <<"a">>, popped |-> <<>>,
                                        mode |-> "live"])
                   IN  /\ m.halt = "end" /\ m.pc = Len(code)
                       /\ Len(m.stack) = 1
                       /\ m.stack[1].name = r.value
                       /\ m.reads = r.reads
                       /\ m.popped = r.popped

(* `a and b or c;` has been compiled *)
C23_Witness ==
    /\ phase = "compiled" /\ ~result.null
    /\ source = <<<<Ident("a")>>, And("b"), Or("c"), <<T("TOKEN_SEMICOLON")>>>>
    /\ \E k \in 1..Len(result.function.chunk.code) :
           result.function.chunk.code[k] = OP_JUMP

(* ---- for -------------------------------------------------------------- *)
MaxForPieces == 5

(* how often the condition of a loop is truthy before it is falsey *)
MaxRounds == 2

(* the steps the machine is given *)
ForFuel == 60

ForHead == <<T("TOKEN_FOR"), T("TOKEN_LEFT_PAREN")>>

Clause(name, end) == <<Ident(name), T(end)>>

ForPieces ==
    { ForHead,
      Clause("i", "TOKEN_SEMICOLON"), <<T("TOKEN_SEMICOLON")>>,
      Clause("c", "TOKEN_SEMICOLON"),
      Clause("n", "TOKEN_RIGHT_PAREN"), <<T("TOKEN_RIGHT_PAREN")>>,
      Clause("b", "TOKEN_SEMICOLON") }

TypeFor == \E piece \in ForPieces : Type(piece, MaxForPieces)

NextFor == TypeFor \/ Compile

SpecFor == Init /\ [][NextFor]_vars

(* the text is `for (`, `i;` or `;`, `c;` or `;`, `n)` or `)`, and `b;` *)
IsForStatement(pieces) ==
    /\ Len(pieces) = 5
    /\ pieces[1] = ForHead
    /\ pieces[2] \in {Clause("i", "TOKEN_SEMICOLON"), <<T("TOKEN_SEMICOLON")>>}
    /\ pieces[3] \in {Clause("c", "TOKEN_SEMICOLON"), <<T("TOKEN_SEMICOLON")>>}
    /\ pieces[4] \in {Clause("n", "TOKEN_RIGHT_PAREN"), <<T("TOKEN_RIGHT_PAREN")>>}
    /\ pieces[5] = Clause("b", "TOKEN_SEMICOLON")

(* the name a clause reads, if it has one *)
Reads(piece) == IF Len(piece) = 2 THEN <<piece[1].start>> ELSE <<>>

(* the reads of k rounds of condition, body, increment *)
RECURSIVE Rounds(_, _)
Rounds(pieces, k) ==
    IF k = 0 THEN <<>>
    ELSE Reads(pieces[3]) \o Reads(pieces[5]) \o Reads(pieces[4]) \o Rounds(pieces, k - 1)

(* the offsets of the instructions of code from pc on *)
RECURSIVE Instructions(_, _)
Instructions(code, pc) ==
    IF pc >= Len(code) THEN <<>>
    ELSE <<pc>> \o Instructions(code, pc + 1 + Operands(code[pc + 1]))

(* the offset of the first instruction that reads the global name *)
OffsetOfRead(code, names, name) ==
    Head(SelectSeq(Instructions(code, 0),
                   LAMBDA pc : /\ code[pc + 1] = OP_GET_GLOBAL
                               /\ names[code[pc + 2] + 1] = name))

(* where the OP_LOOPs of code go, in the order of the code *)
LoopTargets(code) ==
    LET at == SelectSeq(Instructions(code, 0), LAMBDA pc : code[pc + 1] = OP_LOOP)
    IN  [k \in 1..Len(at) |-> at[k] + 3 - Operand16(code, at[k])]

(* C24: the code of `for (init; cond; incr) body` runs init once and then *)
(* cond, body, incr, cond, ...; the OP_LOOP after the increment goes to    *)
(* the condition and the one after the body to the increment, or to the   *)
(* condition where there is no increment; a falsey condition leaves the   *)
(* loop without another body or increment, and every value of the         *)
(* condition is popped once, whether the loop goes on or ends.            *)
C24_ForOrdering ==
    (phase = "compiled" /\ IsForStatement(source)) =>
        LET chunk == result.function.chunk
            code  == chunk.code
            names == ConstantNames(chunk, vm.heap)
            init  == Reads(source[2])
            cond  == Reads(source[3])
            incr  == Reads(source[4])
            condStart == IF init # <<>> THEN OffsetOfRead(code, names, "i") + 3 ELSE 0
        IN  /\ ~result.null
            /\ LoopTargets(code) =
                   IF incr # <<>>
                   THEN <<condStart, OffsetOfRead(code, names, "n")>>
                   ELSE <<condStart>>
            /\ \A t \in 0..MaxRounds :
                   LET env == [g \in {"i", "c", "n", "b"} |->
                                  IF g = "c" THEN t ELSE UINT8_MAX]
                       m   == Run(code, names, env, Machine, ForFuel)
                   IN  IF cond # <<>>
                       THEN /\ m.halt = "return"
                            /\ m.reads = init \o Rounds(source, t) \o cond
                            /\ m.popped = m.reads
                            /\ Len(m.stack) = 1
                       ELSE /\ m.halt = "fuel"
                            /\ Len(m.reads) > 2
                            /\ m.reads = SubSeq(init \o Rounds(source, ForFuel),
                                                1, Len(m.reads))
                            /\ Len(m.popped) \in {Len(m.reads) - 1, Len(m.reads)}
                            /\ m.popped = SubSeq(m.reads, 1, Len(m.popped))

(* `for (i; c; n) b;` has been compiled *)
C24_Witness ==
    /\ phase = "compiled" /\ ~result.null
    /\ source = <<ForHead, Clause("i", "TOKEN_SEMICOLON"), Clause("c", "TOKEN_SEMICOLON"),
                  Clause("n", "TOKEN_RIGHT_PAREN"), Clause("b", "TOKEN_SEMICOLON")>>
    /\ Len(LoopTargets(result.function.chunk.code)) = 2

(* ---- jumps ------------------------------------------------------------ *)
MaxJumpPieces == 3

(* what the text goes on with inside the inner loop of BeginLoop *)
JumpPieces ==
    { <<T("TOKEN_MINUS"), T("TOKEN_NIL"), T("TOKEN_SEMICOLON")>>,    \* -nil;
      <<T("TOKEN_RIGHT_BRACE")>>,                                    \* }
      <<T("TOKEN_IF"), T("TOKEN_LEFT_PAREN"), T("TOKEN_NIL"), T("TOKEN_RIGHT_PAREN"),
        T("TOKEN_NIL"), T("TOKEN_SEMICOLON"), T("TOKEN_ELSE"),
        T("TOKEN_NIL"), T("TOKEN_SEMICOLON")>>,                      \* if (nil) nil; else nil;
      <<T("TOKEN_FOR"), T("TOKEN_LEFT_PAREN"), T("TOKEN_SEMICOLON"),
        T("TOKEN_NIL"), T("TOKEN_AND"), T("TOKEN_NIL"), T("TOKEN_SEMICOLON"),
        T("TOKEN_NIL"), T("TOKEN_OR"), T("TOKEN_NIL"), T("TOKEN_RIGHT_PAREN"),
        T("TOKEN_NIL"), T("TOKEN_SEMICOLON")>> }      \* for (; nil and nil; nil or nil) nil;

TypeJump == \E piece \in JumpPieces : scanner.line > 0 /\ Type(piece, MaxJumpPieces)

NextJump == BeginLoop \/ TypeJump \/ WhileRest

SpecJump == Init /\ [][NextJump]_vars

TooMuchCode == "Too much code to jump over."

(* the 16-bit number in the two operand bytes *)
BigEndian(operand) == operand[1] * 256 + operand[2]

(* every placeholder of emitJump is overwritten by a later patchJump of   *)
(* the same chunk                                                         *)
EveryJumpPatched ==
    \A i \in Events("emitJump") :
        \E j \in Events("patchJump") :
            /\ j > i
            /\ log[j].d.chunk = log[i].d.chunk
            /\ log[j].d.offset = log[i].d.ret
            /\ log[j].d.instruction = log[i].d.instruction
            /\ log[j].d.count >= log[i].d.ret + 2

(* where the instruction at pc goes when it jumps *)
JumpTarget(code, pc) ==
    IF code[pc + 1] = OP_LOOP THEN pc + 3 - Operand16(code, pc) ELSE Target(code, pc)

(* in a compile without an error every jump and loop goes to an           *)
(* instruction of its chunk                                               *)
TargetsAreInstructions ==
    (phase = "compiled" /\ scanner.line <= 2 /\ ~result.null) =>
        LET code == result.function.chunk.code
            at   == Instructions(code, 0)
        IN  \A k \in 1..Len(at) :
                code[at[k] + 1] \in {OP_JUMP, OP_JUMP_IF_FALSE, OP_LOOP} =>
                    /\ JumpTarget(code, at[k]) \in 0..(Len(code) - 1)
                    /\ \E l \in 1..Len(at) : at[l] = JumpTarget(code, at[k])

(* C25 as stated: every placeholder of emitJump is patched later in the   *)
(* same chunk; after patchJump(offset) the operand is count - offset - 2; *)
(* the operand of emitLoop taken from the address after it is loopStart;  *)
(* without an error every target is an instruction of the chunk.          *)
C25_OperandIsDistance ==
    /\ EveryJumpPatched
    /\ \A j \in Events("patchJump") :
           BigEndian(log[j].d.operand) = log[j].d.count - log[j].d.offset - 2
    /\ \A i \in Events("emitLoop") :
           log[i].d.count - BigEndian(log[i].d.operand) = log[i].d.loopStart
    /\ TargetsAreInstructions

(* C25: every placeholder of emitJump is patched later in the same chunk; *)
(* after patchJump(offset) the operand is count - offset - 2 where that   *)
(* is at most 65535, and where it is more patchJump has called error()    *)
(* with "Too much code to jump over." and the operand is its low 16 bits; *)
(* the operand of emitLoop taken from the address after it is loopStart   *)
(* where the offset is at most 65535, and where it is more emitLoop has   *)
(* called error() with "Loop body too large." and the operand is its low  *)
(* 16 bits; without an error every target is an instruction of the chunk. *)
C25_JumpEncoding ==
    /\ EveryJumpPatched
    /\ \A j \in Events("patchJump") :
           LET jump == log[j].d.count - log[j].d.offset - 2
           IN  /\ jump >= 0
               /\ BigEndian(log[j].d.operand) = jump % (UINT16_MAX + 1)
               /\ IF jump > UINT16_MAX THEN ErrorCalled(j - 1, TooMuchCode)
                                       ELSE NoError(j - 1, TooMuchCode)
    /\ \A i \in Events("emitLoop") :
           LET offset == log[i].d.count - log[i].d.loopStart
           IN  /\ offset > 0
               /\ BigEndian(log[i].d.operand) = offset % (UINT16_MAX + 1)
               /\ IF offset > UINT16_MAX THEN ErrorCalled(i - 1, LoopTooLarge)
                                         ELSE NoError(i - 1, LoopTooLarge)
    /\ TargetsAreInstructions

(* an if and a for with `and` and `or` inside two loops have been compiled *)
(* without an error, with every kind of jump patched                      *)
C25_Witness ==
    /\ phase = "compiled" /\ scanner.line = 1 /\ ~result.null
    /\ \E i, j \in Events("patchJump") :
           /\ log[i].d.instruction = OP_JUMP /\ log[j].d.instruction = OP_JUMP_IF_FALSE
           /\ BigEndian(log[i].d.operand) = log[i].d.count - log[i].d.offset - 2
    /\ \E k \in 1..Len(result.function.chunk.code) :
           result.function.chunk.code[k] = OP_JUMP

(* a jump over more than 65535 bytes has been patched *)
C25_TooMuchCode ==
    \E j \in Events("patchJump") : log[j].d.count - log[j].d.offset - 2 > UINT16_MAX

(* ---- the upvalues of a function ---------------------------------------- *)
MaxCapturePieces == 3

(* how many variables the function f declares, and how many the function g *)
OuterVars == 128

InnerVars == 130

(* the locals v<from> .. v<to> of depth 1, those up to v<captured> captured *)
Vars(from, to, captured) ==
    [k \in 1..(to - from + 1) |->
        [name |-> [start |-> VarName(from + k - 1), length |-> 4],
         depth |-> 1, isCaptured |-> from + k - 1 <= captured]]

(* the local a function declaration adds for its name *)
FunLocal(name) ==
    [name |-> [start |-> name, length |-> 1], depth |-> 1, isCaptured |-> FALSE]

(* The state of the compiler after advance() and the text                 *)
(*   fun f() { var v001; ... var v<a>;                                    *)
(*     fun g() { var v<a+1>; ... var v<a+b>;                              *)
(*       fun h() { v001; ... v<n>;                                        *)
(* with n <= a + b and n <= 256: h has the upvalues 0 .. n-1, the first a *)
(* of them upvalues of g, which are locals of f, the others locals of g;  *)
(* every declaration has emitted OP_NIL, every statement of h             *)
(* OP_GET_UPVALUE and OP_POP; f is a global, g and h are locals.          *)
AfterCaptures(a, b, n) ==
    LET s0 == initCompiler([scanner |-> [tokens |-> <<>>, next |-> 0], parser |-> parser,
                            compilers |-> <<>>, vm |-> initVM, log |-> <<>>], "TYPE_SCRIPT")
        sf == initCompiler(identifierConstant([s0 EXCEPT !.parser.previous = Ident("f")],
                                              Ident("f")).st, "TYPE_FUNCTION")
        sg == initCompiler([sf EXCEPT !.parser.previous = Ident("g")], "TYPE_FUNCTION")
        sh == initCompiler([sg EXCEPT !.parser.previous = Ident("h")], "TYPE_FUNCTION")
        outer == IF n < a THEN n ELSE a
    IN  [sh EXCEPT
            !.compilers[2].scopeDepth = 1,
            !.compilers[2].function.chunk.code = [k \in 1..a |-> OP_NIL],
            !.compilers[2].locals = @ \o Vars(1, a, n) \o <<FunLocal("g")>>,
            !.compilers[3].scopeDepth = 1,
            !.compilers[3].function.chunk.code = [k \in 1..b |-> OP_NIL],
            !.compilers[3].locals = @ \o Vars(a + 1, a + b, n) \o <<FunLocal("h")>>,
            !.compilers[3].upvalues = [k \in 1..outer |-> [index |-> k, isLocal |-> TRUE]],
            !.compilers[3].function.upvalueCount = outer,
            !.compilers[4].scopeDepth = 1,
            !.compilers[4].function.chunk.code =
                [j \in 1..(3 * n) |->
                    CASE j % 3 = 1 -> OP_GET_UPVALUE
                      [] j % 3 = 2 -> (j - 2) \div 3
                      [] OTHER     -> OP_POP],
            !.compilers[4].upvalues =
                [k \in 1..n |-> IF k <= a
                                THEN [index |-> k - 1, isLocal |-> FALSE]
                                ELSE [index |-> k - a, isLocal |-> TRUE]],
            !.compilers[4].function.upvalueCount = n]

(* how many statements the body of h begins with *)
Captures == {0, 1, UINT8_MAX, UINT8_COUNT}

Use(k) == <<Ident(VarName(k)), T("TOKEN_SEMICOLON")>>

CapturePieces ==
    { Use(1), Use(OuterVars + InnerVars - 1), Use(OuterVars + InnerVars),
      <<T("TOKEN_RIGHT_BRACE")>> }

BeginCapture == \E n \in Captures : Begin(AfterCaptures(OuterVars, InnerVars, n).compilers)

TypeCapture == \E piece \in CapturePieces : TypeRest(piece, MaxCapturePieces)

(* compile() from the point where the text before src has been compiled  *)
(* into the compilers cs: the block of h goes on with src, then function  *)
(* and funDeclaration for h and the declaration() that called them, the   *)
(* same for g and for f, and the while of compile.                        *)
captureRest(src, p, cs, v) ==
    Bind(advance([scanner |-> [tokens |-> src, next |-> 0],
                  parser |-> [p EXCEPT !.hadError = FALSE, !.panicMode = FALSE,
                                       !.current = T("TOKEN_LEFT_BRACE")],
                  compilers |-> cs, vm |-> v, log |-> <<>>]), LAMBDA s0 :
    Bind(declarationEnd(defineVariable(functionEnd(block(s0)), 0)), LAMBDA s1 :
    Bind(declarationEnd(defineVariable(functionEnd(block(s1)), 0)), LAMBDA s2 :
    Bind(declarationEnd(defineVariable(functionEnd(block(s2)), 0)), LAMBDA s3 :
    Bind(endCompiler(compileLoop(s3)), LAMBDA e :
    [st  |-> e.st,
     ret |-> [null |-> e.st.parser.hadError, function |-> e.ret]])))))

(* compile() has come to the end of the text *)
CaptureRest ==
    /\ phase = "edit" /\ current # <<>>
    /\ \E r \in {captureRest(Join(source), parser, current,
                             AfterCaptures(OuterVars, InnerVars, 0).vm)} :
           /\ parser' = r.st.parser
           /\ vm' = r.st.vm
           /\ result' = r.ret
           /\ log' = r.st.log
    /\ phase' = "compiled"
    /\ UNCHANGED <<source, scanner, current, calls>>

NextCapture == BeginCapture \/ TypeCapture \/ CaptureRest

SpecCapture == Init /\ [][NextCapture]_vars

(* the state AfterCaptures(a, b, n) is the one compile() is in after the  *)
(* text it stands for: going on from it gives what compile() gives for    *)
(* the whole text, here with 2 variables in f and 3 in g                  *)
AfterCapturesIsCompiled ==
    phase = "compiled" =>
        \A n \in 0..5 : \A more \in {<<>>, Use(5), Use(2) \o Use(4)} :
            LET decls(from, to) == Join([k \in 1..(to - from + 1) |->
                                            <<T("TOKEN_VAR"), Ident(VarName(from + k - 1)),
                                              T("TOKEN_SEMICOLON")>>])
                fun(name) == <<T("TOKEN_FUN"), Ident(name), T("TOKEN_LEFT_PAREN"),
                               T("TOKEN_RIGHT_PAREN"), T("TOKEN_LEFT_BRACE")>>
                text  == fun("f") \o decls(1, 2) \o fun("g") \o decls(3, 5) \o fun("h")
                             \o Join([k \in 1..n |-> Use(k)]) \o more \o Join(source)
                whole == compile(text, parser, initVM)
                after == AfterCaptures(2, 3, n)
                rest  == captureRest(more \o Join(source), parser, after.compilers, after.vm)
                kept(l) == SelectSeq(l, LAMBDA x : x.ev \in {"addUpvalue", "report",
                                                              "suppressed", "closure"})
            IN  /\ whole.ret = rest.ret
                /\ whole.st.vm = rest.st.vm
                /\ LET w == kept(whole.st.log)
                       r == kept(rest.st.log)
                   IN  SubSeq(w, Len(w) - Len(r) + 1, Len(w)) = r

(* C26: upvalueCount is never more than 256 and addUpvalue never writes   *)
(* to upvalues[256] or beyond; with 256 upvalues, one more that is not     *)
(* among them reports "Too many closure variables in function." and        *)
(* changes no element and no count.                                       *)
C26_UpvalueBound ==
    /\ Events("storePastUpvalues") = {}
    /\ \A i \in Events("addUpvalue") :
           /\ Len(log[i].d.new) <= UINT8_COUNT
           /\ (Len(log[i].d.old) = UINT8_COUNT /\ Len(log[i].d.new) = UINT8_COUNT) =>
                  log[i].d.new = log[i].d.old

(* a function with 256 upvalues has captured one more *)
C26_StorePast ==
    /\ phase = "compiled"
    /\ \E i \in Events("storePastUpvalues") : log[i].d = UINT8_COUNT

(* ---- compile() step by step -------------------------------------------- *)
MaxTermPieces == 4

TermPieces ==
    { <<T("TOKEN_LEFT_BRACE")>>, <<T("TOKEN_RIGHT_BRACE")>>, <<T("TOKEN_CLASS")>>,
      <<T("TOKEN_SEMICOLON")>>, <<Ident("a")>>, <<T("TOKEN_IF")>>, <<ErrorToken>> }

TypeTerm == \E piece \in TermPieces : Type(piece, MaxTermPieces)

(* the compiler between two steps of compile(): scanner holds the tokens  *)
(* and how many of them scanToken has handed out, current the chain of    *)
(* compilers                                                              *)
Compiling ==
    [scanner |-> scanner, parser |-> parser, compilers |-> current, vm |-> vm, log |-> log]

Becomes(s) ==
    /\ scanner' = s.scanner
    /\ parser' = s.parser
    /\ current' = s.compilers
    /\ vm' = s.vm
    /\ log' = s.log

(* compile() is called and runs up to its while *)
CompileBegin ==
    /\ phase = "edit"
    /\ \E s \in {compileBegin(Join(source), parser, vm)} : Becomes(s)
    /\ phase' = "compiling"
    /\ UNCHANGED <<source, result, calls>>

(* one round of the while of compile: !match(TOKEN_EOF), declaration() *)
CompileDeclaration ==
    /\ phase = "compiling"
    /\ ~check(Compiling, "TOKEN_EOF")
    /\ \E s \in {declaration(Compiling)} : Becomes(s)
    /\ UNCHANGED <<source, phase, result, calls>>

(* the while of compile ends at TOKEN_EOF and compile returns *)
CompileEnd ==
    /\ phase = "compiling"
    /\ check(Compiling, "TOKEN_EOF")
    /\ \E r \in {compileEnd(compileLoop(Compiling))} :
           /\ Becomes(r.st)
           /\ result' = r.ret
    /\ phase' = "compiled"
    /\ UNCHANGED <<source, calls>>

NextTerm == TypeTerm \/ CompileBegin \/ CompileDeclaration \/ CompileEnd

SpecTerm == Init /\ [][NextTerm]_vars

(* where CompileDeclaration can take a step; the step appends to the log, *)
(* so it changes vars                                                     *)
CompileDeclarationEnabled == phase = "compiling" /\ ~check(Compiling, "TOKEN_EOF")

(* a call of compile() goes on: the loop takes its next round, and        *)
(* returns when it has ended.  The first condition is                     *)
(* WF_vars(CompileDeclaration) with its ENABLED written as the state      *)
(* predicate it is equivalent to.                                         *)
SpecTermFair ==
    /\ SpecTerm
    /\ ([]<>(~CompileDeclarationEnabled) \/ []<><<CompileDeclaration>>_vars)
    /\ WF_vars(CompileEnd)

(* every declaration() that began at a token other than TOKEN_EOF has     *)
(* consumed a token, every synchronize() has stopped at TOKEN_EOF or at a *)
(* boundary, and compile() returns at TOKEN_EOF with endCompiler done for *)
(* the script                                                             *)
Progress ==
    /\ \A i \in Events("declaration") :
           log[i].d.current # "TOKEN_EOF" => log[i].d.after < log[i].d.before
    /\ \A j \in Events("synchronized") : AtBoundary(log[j].d)
    /\ phase = "compiled" =>
           /\ parser.current.type = "TOKEN_EOF"
           /\ scanner.next = Len(scanner.tokens)
           /\ current = <<>>
           /\ LET code == result.function.chunk.code
              IN  Len(code) >= 2 /\ SubSeq(code, Len(code) - 1, Len(code)) = <<OP_NIL, OP_RETURN>>

(* C27: compile() terminates on every token stream: every declaration()   *)
(* called at a token other than TOKEN_EOF consumes at least one token,    *)
(* block(), the loop of compile and synchronize() stop at TOKEN_EOF, and  *)
(* a compile() that has begun comes to its return with endCompiler done.  *)
C27_Terminates ==
    /\ []Progress
    /\ (phase = "compiling") ~> (phase = "compiled")

(* compile() has returned for a text with an open block and errors in it: *)
(* declarations inside the block and at the top level, and a synchronize() *)
(* that ran to TOKEN_EOF                                                   *)
C27_Witness ==
    /\ phase = "compiled" /\ result.null
    /\ Cardinality(Events("declaration")) >= 3
    /\ \E i \in Events("declaration") : log[i].d.current = "TOKEN_LEFT_BRACE"
    /\ \E j \in Events("synchronized") : log[j].d.current = "TOKEN_EOF"

(* ---- the rule table ---------------------------------------------------- *)
MaxRulePieces == 3

(* one token of every type but TOKEN_EOF *)
RulePieces ==
    { <<T(type)>> : type \in DOMAIN Lexemes }
        \cup { <<Ident("a")>>, <<Num("1")>>, <<Str("s")>>, <<ErrorToken>> }

TypeRule == \E piece \in RulePieces : Type(piece, MaxRulePieces)

NextRule == TypeRule \/ Compile

SpecRule == Init /\ [][NextRule]_vars

ExpectExpression == "Expect expression."

(* C28: parsePrecedence calls no NULL parse function: it is never called  *)
(* with PREC_NONE, every token type with a precedence above PREC_NONE has *)
(* an infix rule, and where there is no prefix rule it calls error() with *)
(* "Expect expression." and returns; in every text, also after errors.    *)
C28_NoNullDispatch ==
    /\ Events("nullCall") = {}
    /\ \A type \in DOMAIN rules :
           getRule(type).precedence > PREC_NONE => getRule(type).infix # "NULL"
    /\ \A i \in Events("parsePrecedence") :
           /\ log[i].d.precedence > PREC_NONE
           /\ getRule(log[i].d.prefix).prefix # "NULL"
    /\ \A j \in Events("noPrefix") :
           /\ log[j].d.precedence > PREC_NONE
           /\ getRule(log[j].d.token).prefix = "NULL"
           /\ ErrorCalled(j - 1, ExpectExpression)

(* a text after whose first error a binary operator was dispatched and a   *)
(* second missing prefix rule was met in panic mode                        *)
C28_Witness ==
    /\ phase = "compiled"
    /\ \E i, j \in Events("noPrefix") :
           /\ i < j
           /\ log[j - 1].ev = "suppressed"
           /\ log[j].d.precedence > PREC_ASSIGNMENT
    /\ \E k \in Events("parsePrecedence") : log[k].d.precedence = PREC_ASSIGNMENT

(* ---- the scope table ---------------------------------------------------- *)
MaxTablePieces == 5

TablePieces ==
    { <<T("TOKEN_LEFT_BRACE")>>,
      <<T("TOKEN_RIGHT_BRACE")>>,
      <<T("TOKEN_VAR"), Ident("a"), T("TOKEN_SEMICOLON")>>,                \* var a;
      <<T("TOKEN_VAR"), Ident("b"), T("TOKEN_EQUAL"), Ident("a"),
        T("TOKEN_SEMICOLON")>>,                                            \* var b = a;
      FunF,                                                                \* fun f(b) {
      <<T("TOKEN_FOR"), T("TOKEN_LEFT_PAREN"), T("TOKEN_VAR"), Ident("c"),
        T("TOKEN_SEMICOLON"), T("TOKEN_SEMICOLON"),
        T("TOKEN_RIGHT_PAREN")>>,                                          \* for (var c;;)
      <<Ident("a"), T("TOKEN_SEMICOLON")>> }                               \* a;

TypeTable == \E piece \in TablePieces : Type(piece, MaxTablePieces)

NextTable == TypeTable \/ Compile

SpecTable == Init /\ [][NextTable]_vars

(* the scope-table invariant of one Compiler *)
ScopeTable(frame) ==
    LET locals == frame.locals
    IN  /\ frame.scopeDepth >= 0
        /\ Len(locals) >= 1
        /\ locals[1].name.length = 0 /\ locals[1].name.start = "" /\ locals[1].depth = 0
        /\ \A i, j \in 1..Len(locals) :
               (i < j /\ locals[i].depth # -1 /\ locals[j].depth # -1) =>
                   locals[i].depth <= locals[j].depth
        /\ \A i \in 1..(Len(locals) - 1) : locals[i].depth # -1

(* the scope table was written to while no error had been met *)
ErrorFree(i) == log[i].ev = "scope" /\ ~log[i].d.hadError

(* C29: while a compile has met no error, after every write to a scope    *)
(* table each Compiler of the chain has scopeDepth >= 0 and slot 0 with   *)
(* the empty name and depth 0, the depths of its initialised locals do    *)
(* not decrease with the slot, only its topmost local may have depth -1,  *)
(* and right after endScope no local is deeper than scopeDepth; no name   *)
(* that is looked up is the name of slot 0.                               *)
C29_ScopeTable ==
    /\ \A i \in 1..Len(log) : ErrorFree(i) =>
           LET frames == log[i].d.frames
               top    == frames[Len(frames)]
           IN  /\ \A l \in 1..Len(frames) : ScopeTable(frames[l])
               /\ log[i].d.op = "endScope" =>
                      \A k \in 1..Len(top.locals) : top.locals[k].depth <= top.scopeDepth
    /\ \A i \in Events("namedVariable") :
           \A l \in 1..Len(log[i].d.frames) :
               /\ 1 \notin Named(log[i].d.frames[l], log[i].d.name)
               /\ log[i].d.name # ""

(* an error-free compile in which a function with a parameter declared a  *)
(* local in a block of its body and the block was ended                   *)
C29_Witness ==
    /\ phase = "compiled" /\ ~result.null
    /\ \E i \in 1..Len(log) :
           /\ ErrorFree(i) /\ log[i].d.op = "addLocal"
           /\ Len(log[i].d.frames) = 2
           /\ log[i].d.frames[2].scopeDepth = 2
           /\ Len(log[i].d.frames[2].locals) = 3
    /\ \E j \in 1..Len(log) :
           /\ ErrorFree(j) /\ log[j].d.op = "endScope"
           /\ Len(log[j].d.frames) = 2
           /\ Len(log[j].d.frames[2].locals) = 2

(* ---- the positions of the scanner -------------------------------------- *)
MaxPosPieces == 4

MaxPosCalls == 5

PosPieces == {"a", "fa", "t", "1", "1.", ".", "\"", "//", "/", "\n", " ", "@", "="}

TypePos == \E piece \in PosPieces : Type(piece, MaxPosPieces)

ScanTokenPos == ScanToken(MaxPosCalls)

NextPos == TypePos \/ InitScanner \/ ScanTokenPos

SpecPos == Init /\ [][NextPos]_vars

(* a text of whitespace and comments only: a comment runs from // to the  *)
(* end of its line or of the text                                         *)
RECURSIVE Blank(_)
Blank(text) ==
    \/ text = ""
    \/ /\ SubSeq(text, 1, 1) \in {" ", "\r", "\t", "\n"}
       /\ Blank(SubSeq(text, 2, Len(text)))
    \/ /\ Len(text) >= 2 /\ SubSeq(text, 1, 2) = "//"
       /\ LET ends == {k \in 1..Len(text) : SubSeq(text, k, k) = "\n"}
          IN  ends = {} \/ Blank(SubSeq(text, CHOOSE k \in ends : \A l \in ends : k <= l,
                                        Len(text)))

(* the calls of scanToken that returned a token with a lexeme in the text *)
SourceTokens == {i \in Events("scanToken") : log[i].d.ret.type # "TOKEN_ERROR"}

====
